---- MODULE Spec2Model ----
(***************************************************************************)
(* A model of the Myrient Search App core: the concurrent crawler of       *)
(* crawler.py (crawl_and_index and its helpers) and the download manager   *)
(* of downloader.py (Downloader).  Text is modelled as a sequence of       *)
(* one-character strings, so that lower(), unquote(), split() and the      *)
(* substring tests of the source are computed rather than assumed.         *)
(***************************************************************************)
EXTENDS Integers, Sequences, FiniteSets, TLC

\* ------------------------------------------------------------------------
\* Text helpers: the str methods and urllib.parse.unquote used by the source
\* ------------------------------------------------------------------------

UpperLetters ==
    << "A", "B", "C", "D", "E", "F", "G", "H", "I", "J", "K", "L", "M",
       "N", "O", "P", "Q", "R", "S", "T", "U", "V", "W", "X", "Y", "Z" >>

LowerLetters ==
    << "a", "b", "c", "d", "e", "f", "g", "h", "i", "j", "k", "l", "m",
       "n", "o", "p", "q", "r", "s", "t", "u", "v", "w", "x", "y", "z" >>

\* The printable ASCII characters, code 32 first ("GRAVE" stands for the
\* grave accent, code 96).
AsciiPrintable ==
    << " ", "!", "\"", "#", "$", "%", "&", "'", "(", ")", "*", "+", ",", "-", ".", "/",
       "0", "1", "2", "3", "4", "5", "6", "7", "8", "9", ":", ";", "<", "=", ">", "?",
       "@", "A", "B", "C", "D", "E", "F", "G", "H", "I", "J", "K", "L", "M", "N", "O",
       "P", "Q", "R", "S", "T", "U", "V", "W", "X", "Y", "Z", "[", "\\", "]", "^", "_",
       "GRAVE", "a", "b", "c", "d", "e", "f", "g", "h", "i", "j", "k", "l", "m", "n", "o",
       "p", "q", "r", "s", "t", "u", "v", "w", "x", "y", "z", "{", "|", "}", "~" >>

HexDigits ==
    << "0", "1", "2", "3", "4", "5", "6", "7", "8", "9",
       "a", "b", "c", "d", "e", "f", "A", "B", "C", "D", "E", "F" >>

IndexOf(c, table) ==
    IF \E i \in DOMAIN table : table[i] = c
    THEN CHOOSE i \in DOMAIN table : table[i] = c
    ELSE 0

\* str.lower() on one character
LowerChar(c) ==
    LET i == IndexOf(c, UpperLetters)
    IN  IF i = 0 THEN c ELSE LowerLetters[i]

\* str.lower()
Lower(s) ==
    [i \in 1..Len(s) |-> LowerChar(s[i])]

\* needle in haystack (Python's substring test)
Contains(needle, s) ==
    \E i \in 1..(Len(s) - Len(needle) + 1) :
        SubSeq(s, i, i + Len(needle) - 1) = needle

\* needle in list (Python's membership test on a list)
InList(x, list) ==
    \E i \in DOMAIN list : list[i] = x

EndsWith(s, suffix) ==
    /\ Len(s) >= Len(suffix)
    /\ SubSeq(s, Len(s) - Len(suffix) + 1, Len(s)) = suffix

StartsWith(s, prefix) ==
    /\ Len(s) >= Len(prefix)
    /\ SubSeq(s, 1, Len(prefix)) = prefix

RECURSIVE LStrip(_, _)
\* str.lstrip(c)
LStrip(s, c) ==
    IF s # << >> /\ Head(s) = c THEN LStrip(Tail(s), c) ELSE s

RECURSIVE RStrip(_, _)
\* str.rstrip(c)
RStrip(s, c) ==
    IF s # << >> /\ s[Len(s)] = c THEN RStrip(SubSeq(s, 1, Len(s) - 1), c) ELSE s

\* str.strip(c)
Strip(s, c) ==
    RStrip(LStrip(s, c), c)

RECURSIVE SplitFrom(_, _, _)
\* str.split(c): the pieces of s between the occurrences of c, empty ones kept;
\* acc is the piece being read
SplitFrom(s, c, acc) ==
    IF s = << >> THEN << acc >>
    ELSE IF Head(s) = c THEN << acc >> \o SplitFrom(Tail(s), c, << >>)
    ELSE SplitFrom(Tail(s), c, Append(acc, Head(s)))

Split(s, c) ==
    SplitFrom(s, c, << >>)

HexVal(c) ==
    LET i == IndexOf(c, HexDigits)
    IN  IF i <= 16 THEN i - 1 ELSE i - 7

IsHex(c) ==
    IndexOf(c, HexDigits) # 0

\* The control characters, code 0 first, each named by its code point
ControlChars ==
    << "U+0000", "U+0001", "U+0002", "U+0003", "U+0004", "U+0005", "U+0006", "U+0007",
       "U+0008", "U+0009", "U+000A", "U+000B", "U+000C", "U+000D", "U+000E", "U+000F",
       "U+0010", "U+0011", "U+0012", "U+0013", "U+0014", "U+0015", "U+0016", "U+0017",
       "U+0018", "U+0019", "U+001A", "U+001B", "U+001C", "U+001D", "U+001E", "U+001F" >>

\* The character a decoded byte stands for (unquote decodes with
\* errors="replace"): an ASCII byte is its character; a byte above 127 is taken
\* alone and decodes to the replacement character.
ByteChar(b) ==
    IF b < 32 THEN ControlChars[b + 1]
    ELSE IF b <= 126 THEN AsciiPrintable[b - 31]
    ELSE IF b = 127 THEN "U+007F"
    ELSE "U+FFFD"

RECURSIVE Unquote(_)
\* urllib.parse.unquote: every %XX with two hex digits is replaced by the
\* character of that byte; any other % is kept as it is
Unquote(s) ==
    IF s = << >> THEN << >>
    ELSE IF Head(s) = "%" /\ Len(s) >= 3 /\ IsHex(s[2]) /\ IsHex(s[3])
         THEN << ByteChar(16 * HexVal(s[2]) + HexVal(s[3])) >>
              \o Unquote(SubSeq(s, 4, Len(s)))
         ELSE << Head(s) >> \o Unquote(Tail(s))

\* ------------------------------------------------------------------------
\* Module-level tables of crawler.py
\* ------------------------------------------------------------------------

\* The list literal of ignored_base_folders, before it is lower-cased
ignored_base_folders_raw ==
    << <<"M","i","s","c","e","l","l","a","n","e","o","u","s">>,
       <<"T","O","S","E","C","-","P","I","X">>,
       <<"9","6","x","6","5","p","i","x","e","l","s">>,
       <<"E","B","Z","e","r","o">>,
       <<"U","n","k","n","o","w","n">>,
       <<"a","b","e","r","u","s","u","g","i">>,
       <<"a","i","t","u","s","9","5">>,
       <<"a","r","c","h","i","v","e","r","_","2","0","2","0">>,
       <<"b","i","n","g","b","o","n","g","2","9","4">>,
       <<"b","l","u","e","m","a","x","i","m","a">>,
       <<"c","h","a","d","m","a","s","t","e","r">>,
       <<"c","m","p","l","t","r","o","m","s","e","t","s">>,
       <<"k","o","d","i","_","a","m","p","_","s","p","m","c","_","c","a","n","a","d","a">>,
       <<"l","o","l","l","o","_","2","2","0">>,
       <<"m","d","_">>,
       <<"m","d","a","s","h","k">>,
       <<"p","i","x","e","l","s","p","o","i","l">>,
       <<"r","e","t","r","o","_","g","a","m","e","_","c","h","a","m","p","i","o","n">>,
       <<"r","o","m","h","a","c","k","i","n","g","_","n","e","t">>,
       <<"r","o","m","p","a","c","k","e","r">>,
       <<"r","v","t","-","r">>,
       <<"s","k","e","t","c","h","_","t","h","e","_","c","o","w">>,
       <<"s","t","o","r","a","g","e","_","m","a","n","a","g","e","r">>,
       <<"s","u","p","e","r","b","i","o">>,
       <<"t","e","a","m","g","t","1","9">>,
       <<"t","h","e","_","l","a","s","t","_","c","o","l","l","e","c","t","o","r">>,
       <<"y","a","h","w","e","a","s","e","l">> >>

ignored_base_folders ==
    [i \in DOMAIN ignored_base_folders_raw |-> Lower(ignored_base_folders_raw[i])]

\* The list literal of ignored_folders, before it is lower-cased
ignored_folders_raw ==
    << <<"a","u","d","i","o"," ","c","d">>,
       <<"b","d","-","v","i","d","e","o">>,
       <<"d","v","d","-","v","i","d","e","o">>,
       <<"v","i","d","e","o"," ","c","d">>,
       <<"d","i","s","c"," ","k","e","y","s">>,
       <<"(","t","h","e","m","e","s",")">>,
       <<"(","u","p","d","a","t","e","s",")">>,
       <<"f","i","r","m","w","a","r","e">>,
       <<"d","e","m","o","s">>,
       <<"d","o","c","s">>,
       <<"g","d","i"," ","f","i","l","e","s">>,
       <<"a","p","p","l","i","c","a","t","i","o","n","s">>,
       <<"o","p","e","r","a","t","i","n","g"," ","s","y","s","t","e","m","s">>,
       <<"v","a","r","i","o","u","s">>,
       <<"m","a","g","a","z">>,
       <<"e","d","u","c","a","t","i","o","n","a","l">>,
       <<"s","a","m","p","l","e","r","s">>,
       <<"c","o","v","e","r","d","i","s","c","s">>,
       <<"(","m","u","s","i","c",")">>,
       <<"d","i","s","k","m","a","g","s">>,
       <<"b","o","o","k","s">>,
       <<"b","i","o","s">>,
       <<"d","e","m","o">>,
       <<"(","m","o","v","i","e"," ","o","n","l","y",")">>,
       <<"d","o","c","u","m","e","n","t","s">>,
       <<"v","i","d","e","o"," ","g","a","m","e"," ","o","s","t","s">>,
       <<"v","i","d","e","o"," ","g","a","m","e"," ","s","c","a","n","s">>,
       <<"s","o","u","r","c","e"," ","c","o","d","e">>,
       <<"p","l","a","y","s","t","a","t","i","o","n"," ","g","a","m","e","s","h","a","r","k"," ","u","p","d","a","t","e","s">>,
       <<"n","o","n","-","r","e","d","u","m","p">>,
       <<"p","r","o","m","o">>,
       <<"a","m","i","i","b","o">>,
       <<"n","i","n","t","e","n","d","o"," ","s","d","k","s">>,
       <<"u","l","t","i","m","a","t","e"," ","c","o","d","e","s">>,
       <<"a","c","t","i","o","n"," ","r","e","p","l","a","y">>,
       <<"u","n","l","i","m","i","t","e","d"," ","c","o","d","e","s">>,
       <<"c","h","e","a","t","c","o","d","e","s">>,
       <<"c","h","e","a","t"," ","c","o","d","e">>,
       <<"c","h","e","a","t","s">>,
       <<"c","h","e","a","t"," ","m","a","s","t","e","r">>,
       <<"c","h","e","a","t"," ","d","i","s","c">> >>

ignored_folders ==
    [i \in DOMAIN ignored_folders_raw |-> Lower(ignored_folders_raw[i])]

\* platform_aliases, the pairs (alias, canonical name) in the order of the dict
platform_aliases ==
    << <<<<"a","p","p","l","e"," ","1">>,
         <<"A","p","p","l","e"," ","I">>>>,
       <<<<"a","p","p","l","e"," ","i">>,
         <<"A","p","p","l","e"," ","I">>>>,
       <<<<"a","p","p","l","e"," ","i","i">>,
         <<"A","p","p","l","e"," ","I","I">>>>,
       <<<<"a","p","p","l","e"," ","i","i"," ","p","l","u","s">>,
         <<"A","p","p","l","e"," ","I","I"," ","P","l","u","s">>>>,
       <<<<"a","p","p","l","e"," ","i","i","e">>,
         <<"A","p","p","l","e"," ","I","I","e">>>>,
       <<<<"a","p","p","l","e"," ","i","i","g","s">>,
         <<"A","p","p","l","e"," ","I","I","G","S">>>>,
       <<<<"v","m"," ","l","a","b","s"," ","n","u","o","n">>,
         <<"V","M"," ","L","a","b","s"," ","N","U","O","N">>>>,
       <<<<"n","e","c"," ","p","c"," ","e","n","g","i","n","e"," ","c","d"," ","&"," ","t","u","r","b","o","g","r","a","f","x">>,
         <<"N","E","C"," ","P","C"," ","E","n","g","i","n","e"," ","C","D"," ","&"," ","T","u","r","b","o","G","r","a","f","x","-","1","6">>>>,
       <<<<"n","e","c"," ","p","c"," ","e","n","g","i","n","e"," ","c","d"," ","+"," ","t","u","r","b","o","g","r","a","f","x">>,
         <<"N","E","C"," ","P","C"," ","E","n","g","i","n","e"," ","C","D"," ","&"," ","T","u","r","b","o","G","r","a","f","x","-","1","6">>>>,
       <<<<"n","e","c"," ","p","c","-","e","n","g","i","n","e"," ","&"," ","t","u","r","b","o","g","r","a","f","x","-","1","6">>,
         <<"N","E","C"," ","P","C"," ","E","n","g","i","n","e"," ","&"," ","T","u","r","b","o","G","r","a","f","x","-","1","6">>>>,
       <<<<"n","e","c"," ","p","c","-","e","n","g","i","n","e"," ","c","d"," ","&"," ","t","u","r","b","o","g","r","a","f","x","-","1","6">>,
         <<"N","E","C"," ","P","C"," ","E","n","g","i","n","e"," ","C","D"," ","&"," ","T","u","r","b","o","G","r","a","f","x","-","1","6">>>>,
       <<<<"s","n","k"," ","n","e","o"," ","g","e","o">>,
         <<"S","N","K"," ","N","e","o"," ","G","e","o">>>>,
       <<<<"s","n","k"," ","n","e","o","-","g","e","o">>,
         <<"S","N","K"," ","N","e","o"," ","G","e","o">>>>,
       <<<<"s","n","k"," ","n","e","o","-","g","e","o"," ","c","d">>,
         <<"S","N","K"," ","N","e","o"," ","G","e","o"," ","C","D">>>>,
       <<<<"s","n","k"," ","n","e","o","g","e","o"," ","p","o","c","k","e","t">>,
         <<"S","N","K"," ","N","e","o"," ","G","e","o"," ","P","o","c","k","e","t">>>>,
       <<<<"s","n","k"," ","n","e","o","g","e","o"," ","p","o","c","k","e","t"," ","c","o","l","o","r">>,
         <<"S","N","K"," ","N","e","o"," ","G","e","o"," ","P","o","c","k","e","t"," ","C","o","l","o","r">>>>,
       <<<<"n","i","n","t","e","n","d","o"," ","f","a","m","i","c","o","m"," ","&"," ","e","n","t","e","r","t","a","i","n","m","e","n","t"," ","s","y","s","t","e","m">>,
         <<"N","i","n","t","e","n","d","o"," ","E","n","t","e","r","t","a","i","n","m","e","n","t"," ","S","y","s","t","e","m">>>>,
       <<<<"n","i","n","t","e","n","d","o"," ","s","u","p","e","r"," ","f","a","m","i","c","o","m"," ","&"," ","e","n","t","e","r","t","a","i","n","m","e","n","t"," ","s","y","s","t","e","m">>,
         <<"S","u","p","e","r"," ","N","i","n","t","e","n","d","o"," ","E","n","t","e","r","t","a","i","n","m","e","n","t"," ","S","y","s","t","e","m">>>>,
       <<<<"n","i","n","t","e","n","d","o"," ","s","u","p","e","r"," ","n","i","n","t","e","n","d","o"," ","e","n","t","e","r","t","a","i","n","m","e","n","t"," ","s","y","s","t","e","m">>,
         <<"S","u","p","e","r"," ","N","i","n","t","e","n","d","o"," ","E","n","t","e","r","t","a","i","n","m","e","n","t"," ","S","y","s","t","e","m">>>>,
       <<<<"n","i","n","t","e","n","d","o"," ","s","u","p","e","r"," ","e","n","t","e","r","t","a","i","n","m","e","n","t"," ","s","y","s","t","e","m">>,
         <<"S","u","p","e","r"," ","N","i","n","t","e","n","d","o"," ","E","n","t","e","r","t","a","i","n","m","e","n","t"," ","S","y","s","t","e","m">>>>,
       <<<<"n","i","n","t","e","n","d","o"," ","f","a","m","i","c","o","m"," ","d","i","s","k"," ","s","y","s","t","e","m">>,
         <<"N","i","n","t","e","n","d","o"," ","F","a","m","i","c","o","m"," ","D","i","s","k"," ","S","y","s","t","e","m">>>>,
       <<<<"n","i","n","t","e","n","d","o"," ","w","i","i"," ","[","z","s","t","d","-","1","9","-","1","2","8","k","]">>,
         <<"N","i","n","t","e","n","d","o"," ","W","i","i">>>>,
       <<<<"n","i","n","t","e","n","d","o"," ","g","a","m","e","c","u","b","e"," ","[","z","s","t","d","-","1","9","-","1","2","8","k","]">>,
         <<"N","i","n","t","e","n","d","o"," ","G","a","m","e","c","u","b","e">>>>,
       <<<<"i","b","m"," ","p","c"," ","c","o","m","p","a","t","i","b","l","e">>,
         <<"I","B","M"," ","P","C"," ","C","o","m","p","a","t","i","b","l","e">>>>,
       <<<<"i","b","m"," ","p","c"," ","a","n","d"," ","c","o","m","p","a","t","i","b","l","e","s">>,
         <<"I","B","M"," ","P","C"," ","C","o","m","p","a","t","i","b","l","e">>>>,
       <<<<"I","B","M"," ","P","C"," ","C","o","m","p","a","t","i","b","l","e"," ","S","B","I"," ","S","u","b","c","h","a","n","n","e","l","s">>,
         <<"I","B","M"," ","P","C"," ","C","o","m","p","a","t","i","b","l","e">>>>,
       <<<<"I","B","M"," ","P","C"," ","C","o","m","p","a","t","i","b","l","e","s">>,
         <<"I","B","M"," ","P","C"," ","C","o","m","p","a","t","i","b","l","e">>>> >>

\* ------------------------------------------------------------------------
\* The served directory tree (the input of a crawl)
\* ------------------------------------------------------------------------

\* One <tr> of a listing page: the link's href, the size cell, the date cell
Row(name, size, last_modified) ==
    [name |-> name, size |-> size, last_modified |-> last_modified]

\* A served tree, a diamond: A/P/Q/ is listed by A/ (as P/Q/) and by A/P/ (as Q/).
\*   "": A/ A/P/
\*   "A/": ../ P/Q/ Miscellaneous/
\*   "A/P/": ../ Q/ n.txt
\*   "A/P/Q/": ../ g%20(USA).zip
SiteDiamond ==
    <<
       [ folder |-> << >>,
         rows |-> << Row(<<"A","/">>, <<"-">>, <<"d","1">>),
                     Row(<<"A","/","P","/">>, <<"-">>, <<"d","1">>) >> ],
       [ folder |-> <<"A","/">>,
         rows |-> << Row(<<".",".","/">>, <<"-">>, <<"d","1">>),
                     Row(<<"P","/","Q","/">>, <<"-">>, <<"d","1">>),
                     Row(<<"M","i","s","c","e","l","l","a","n","e","o","u","s","/">>, <<"-">>, <<"d","1">>) >> ],
       [ folder |-> <<"A","/","P","/">>,
         rows |-> << Row(<<".",".","/">>, <<"-">>, <<"d","1">>),
                     Row(<<"Q","/">>, <<"-">>, <<"d","1">>),
                     Row(<<"n",".","t","x","t">>, <<"5","1","2">>, <<"d","2">>) >> ],
       [ folder |-> <<"A","/","P","/","Q","/">>,
         rows |-> << Row(<<".",".","/">>, <<"-">>, <<"d","1">>),
                     Row(<<"g","%","2","0","(","U","S","A",")",".","z","i","p">>, <<"5"," ","M","i","B">>, <<"d","2">>) >> ] >>

\* A served tree, eight folders matching ignored_folders listed before a folder that does not.
\*   "": BIOS/ b%69os/ demos/ Demo/ docs/ books/ promo/ cheats/ A/
\*   "A/": ../ P/
\*   "A/P/": ../ g.zip
SiteIgnored ==
    <<
       [ folder |-> << >>,
         rows |-> << Row(<<"B","I","O","S","/">>, <<"-">>, <<"d","1">>),
                     Row(<<"b","%","6","9","o","s","/">>, <<"-">>, <<"d","1">>),
                     Row(<<"d","e","m","o","s","/">>, <<"-">>, <<"d","1">>),
                     Row(<<"D","e","m","o","/">>, <<"-">>, <<"d","1">>),
                     Row(<<"d","o","c","s","/">>, <<"-">>, <<"d","1">>),
                     Row(<<"b","o","o","k","s","/">>, <<"-">>, <<"d","1">>),
                     Row(<<"p","r","o","m","o","/">>, <<"-">>, <<"d","1">>),
                     Row(<<"c","h","e","a","t","s","/">>, <<"-">>, <<"d","1">>),
                     Row(<<"A","/">>, <<"-">>, <<"d","1">>) >> ],
       [ folder |-> <<"A","/">>,
         rows |-> << Row(<<".",".","/">>, <<"-">>, <<"d","1">>),
                     Row(<<"P","/">>, <<"-">>, <<"d","1">>) >> ],
       [ folder |-> <<"A","/","P","/">>,
         rows |-> << Row(<<".",".","/">>, <<"-">>, <<"d","1">>),
                     Row(<<"g",".","z","i","p">>, <<"5"," ","M","i","B">>, <<"d","2">>) >> ] >>

\* A served tree, two sibling folders, one listing an ignored folder eight times.
\*   "": A/ B/
\*   "A/": ../ bios/ bios/ bios/ bios/ bios/ bios/ bios/ bios/
\*   "B/": ../ P/
\*   "B/P/": ../ g.zip
SiteRace ==
    <<
       [ folder |-> << >>,
         rows |-> << Row(<<"A","/">>, <<"-">>, <<"d","1">>),
                     Row(<<"B","/">>, <<"-">>, <<"d","1">>) >> ],
       [ folder |-> <<"A","/">>,
         rows |-> << Row(<<".",".","/">>, <<"-">>, <<"d","1">>),
                     Row(<<"b","i","o","s","/">>, <<"-">>, <<"d","1">>),
                     Row(<<"b","i","o","s","/">>, <<"-">>, <<"d","1">>),
                     Row(<<"b","i","o","s","/">>, <<"-">>, <<"d","1">>),
                     Row(<<"b","i","o","s","/">>, <<"-">>, <<"d","1">>),
                     Row(<<"b","i","o","s","/">>, <<"-">>, <<"d","1">>),
                     Row(<<"b","i","o","s","/">>, <<"-">>, <<"d","1">>),
                     Row(<<"b","i","o","s","/">>, <<"-">>, <<"d","1">>),
                     Row(<<"b","i","o","s","/">>, <<"-">>, <<"d","1">>) >> ],
       [ folder |-> <<"B","/">>,
         rows |-> << Row(<<".",".","/">>, <<"-">>, <<"d","1">>),
                     Row(<<"P","/">>, <<"-">>, <<"d","1">>) >> ],
       [ folder |-> <<"B","/","P","/">>,
         rows |-> << Row(<<".",".","/">>, <<"-">>, <<"d","1">>),
                     Row(<<"g",".","z","i","p">>, <<"5"," ","M","i","B">>, <<"d","2">>) >> ] >>

\* A served tree, a .zip with too few path segments for the tosec rule.
\*   "": tosec/
\*   "tosec/": ../ games.zip
SiteTosec ==
    <<
       [ folder |-> << >>,
         rows |-> << Row(<<"t","o","s","e","c","/">>, <<"-">>, <<"d","1">>) >> ],
       [ folder |-> <<"t","o","s","e","c","/">>,
         rows |-> << Row(<<".",".","/">>, <<"-">>, <<"d","1">>),
                     Row(<<"g","a","m","e","s",".","z","i","p">>, <<"5"," ","M","i","B">>, <<"d","2">>) >> ] >>

\* A served tree, a folder listing files before a subfolder, and a folder whose
\* href escapes its first letter, an upper-case one.
\*   "": A/ %4Discellaneous/
\*   "A/": ../ P/
\*   "A/P/": ../ f.zip d%65mo.zip Q/
\*   "A/P/Q/": ../ h.zip
\*   "%4Discellaneous/": ../
SiteMixed ==
    <<
       [ folder |-> << >>,
         rows |-> << Row(<<"A","/">>, <<"-">>, <<"d","1">>),
                     Row(<<"%","4","D","i","s","c","e","l","l","a","n","e","o","u","s","/">>, <<"-">>, <<"d","1">>) >> ],
       [ folder |-> <<"A","/">>,
         rows |-> << Row(<<".",".","/">>, <<"-">>, <<"d","1">>),
                     Row(<<"P","/">>, <<"-">>, <<"d","1">>) >> ],
       [ folder |-> <<"A","/","P","/">>,
         rows |-> << Row(<<".",".","/">>, <<"-">>, <<"d","1">>),
                     Row(<<"f",".","z","i","p">>, <<"1","0","2","4">>, <<"d","2">>),
                     Row(<<"d","%","6","5","m","o",".","z","i","p">>, <<"5"," ","M","i","B">>, <<"d","3">>),
                     Row(<<"Q","/">>, <<"-">>, <<"d","1">>) >> ],
       [ folder |-> <<"A","/","P","/","Q","/">>,
         rows |-> << Row(<<".",".","/">>, <<"-">>, <<"d","1">>),
                     Row(<<"h",".","z","i","p">>, <<"7">>, <<"d","4">>) >> ],
       [ folder |-> <<"%","4","D","i","s","c","e","l","l","a","n","e","o","u","s","/">>,
         rows |-> << Row(<<".",".","/">>, <<"-">>, <<"d","1">>) >> ] >>

\* A served tree, nine folders under the root, each of them empty.
\*   "": 1/ 2/ 3/ 4/ 5/ 6/ 7/ 8/ 9/
\*   "1/" .. "9/": ../
SiteWide ==
    <<
       [ folder |-> << >>,
         rows |-> << Row(<<"1","/">>, <<"-">>, <<"d","1">>),
                     Row(<<"2","/">>, <<"-">>, <<"d","1">>),
                     Row(<<"3","/">>, <<"-">>, <<"d","1">>),
                     Row(<<"4","/">>, <<"-">>, <<"d","1">>),
                     Row(<<"5","/">>, <<"-">>, <<"d","1">>),
                     Row(<<"6","/">>, <<"-">>, <<"d","1">>),
                     Row(<<"7","/">>, <<"-">>, <<"d","1">>),
                     Row(<<"8","/">>, <<"-">>, <<"d","1">>),
                     Row(<<"9","/">>, <<"-">>, <<"d","1">>) >> ],
       [ folder |-> <<"1","/">>,
         rows |-> << Row(<<".",".","/">>, <<"-">>, <<"d","1">>) >> ],
       [ folder |-> <<"2","/">>,
         rows |-> << Row(<<".",".","/">>, <<"-">>, <<"d","1">>) >> ],
       [ folder |-> <<"3","/">>,
         rows |-> << Row(<<".",".","/">>, <<"-">>, <<"d","1">>) >> ],
       [ folder |-> <<"4","/">>,
         rows |-> << Row(<<".",".","/">>, <<"-">>, <<"d","1">>) >> ],
       [ folder |-> <<"5","/">>,
         rows |-> << Row(<<".",".","/">>, <<"-">>, <<"d","1">>) >> ],
       [ folder |-> <<"6","/">>,
         rows |-> << Row(<<".",".","/">>, <<"-">>, <<"d","1">>) >> ],
       [ folder |-> <<"7","/">>,
         rows |-> << Row(<<".",".","/">>, <<"-">>, <<"d","1">>) >> ],
       [ folder |-> <<"8","/">>,
         rows |-> << Row(<<".",".","/">>, <<"-">>, <<"d","1">>) >> ],
       [ folder |-> <<"9","/">>,
         rows |-> << Row(<<".",".","/">>, <<"-">>, <<"d","1">>) >> ] >>

Sites ==
    << SiteDiamond, SiteIgnored, SiteRace, SiteTosec, SiteMixed, SiteWide >>

\* The base_url the callers pass (gui.py, tui.py: self.base_url)
BaseUrl ==
    << "m", ":", "/" >>

\* ------------------------------------------------------------------------
\* crawler.py: pure helpers
\* ------------------------------------------------------------------------

\* _process_folder, the first lines: the URL a folder is fetched at
FolderUrl(folder) ==
    LET u == RStrip(BaseUrl, "/") \o << "/" >> \o LStrip(folder, "/")
    IN  IF EndsWith(u, << "/" >>) THEN u ELSE u \o << "/" >>

\* The page the server holds at a URL, or none
HasPage(s, url) ==
    \E i \in DOMAIN Sites[s] : FolderUrl(Sites[s][i].folder) = url

PageRows(s, url) ==
    LET i == CHOOSE j \in DOMAIN Sites[s] : FolderUrl(Sites[s][j].folder) = url
    IN  Sites[s][i].rows

\* fetch_folder_listing, the loop over the rows of the page: an entry for
\* every row but those whose href is "../"
listing_entries(rows) ==
    SelectSeq(rows, LAMBDA r : r.name # << ".", ".", "/" >>)

\* fetch_folder_listing, after a successful GET
fetch_folder_listing(s, url) ==
    listing_entries(PageRows(s, url))
\* ------------------------------------------------------------------------
\* crawler.py: metadata of a file path
\* ------------------------------------------------------------------------

\* An optional value: None, or a value
None ==
    << >>

Some(x) ==
    << x >>

\* str.upper() on one character
UpperChar(c) ==
    LET i == IndexOf(c, LowerLetters)
    IN  IF i = 0 THEN c ELSE UpperLetters[i]

\* str.upper()
Upper(s) ==
    [i \in 1..Len(s) |-> UpperChar(s[i])]

\* A cased character (the characters of the model that have a case)
IsLetter(c) ==
    IndexOf(c, UpperLetters) # 0 \/ IndexOf(c, LowerLetters) # 0

RECURSIVE TitleFrom(_, _)
\* str.title(): a cased character is upper-cased when the character before it
\* is not cased, and lower-cased when it is
TitleFrom(s, prev_cased) ==
    IF s = << >> THEN << >>
    ELSE IF IsLetter(Head(s))
         THEN << IF prev_cased THEN LowerChar(Head(s)) ELSE UpperChar(Head(s)) >>
              \o TitleFrom(Tail(s), TRUE)
         ELSE << Head(s) >> \o TitleFrom(Tail(s), FALSE)

Title(s) ==
    TitleFrom(s, FALSE)

\* str.isspace() on one character, which is also \s of the re module
IsSpace(c) ==
    c \in {" ", "U+0009", "U+000A", "U+000B", "U+000C", "U+000D",
           "U+001C", "U+001D", "U+001E", "U+001F"}

RECURSIVE LStripSpace(_)
LStripSpace(s) ==
    IF s # << >> /\ IsSpace(Head(s)) THEN LStripSpace(Tail(s)) ELSE s

RECURSIVE RStripSpace(_)
RStripSpace(s) ==
    IF s # << >> /\ IsSpace(s[Len(s)])
    THEN RStripSpace(SubSeq(s, 1, Len(s) - 1)) ELSE s

\* str.strip()
StripSpace(s) ==
    RStripSpace(LStripSpace(s))

RECURSIVE SplitSpaceFrom(_, _)
\* str.split(): the words of s between runs of whitespace; acc is the word
\* being read
SplitSpaceFrom(s, acc) ==
    LET word == IF acc = << >> THEN << >> ELSE << acc >>
    IN  IF s = << >> THEN word
        ELSE IF IsSpace(Head(s)) THEN word \o SplitSpaceFrom(Tail(s), << >>)
        ELSE SplitSpaceFrom(Tail(s), Append(acc, Head(s)))

SplitSpace(s) ==
    SplitSpaceFrom(s, << >>)

RECURSIVE SplitSepFrom(_, _, _)
\* str.split(sep) for a separator of one or more characters
SplitSepFrom(s, sep, acc) ==
    IF s = << >> THEN << acc >>
    ELSE IF StartsWith(s, sep)
         THEN << acc >> \o SplitSepFrom(SubSeq(s, Len(sep) + 1, Len(s)), sep, << >>)
         ELSE SplitSepFrom(Tail(s), sep, Append(acc, Head(s)))

SplitSep(s, sep) ==
    SplitSepFrom(s, sep, << >>)

RECURSIVE Join(_, _)
\* sep.join(list)
Join(list, sep) ==
    IF list = << >> THEN << >>
    ELSE IF Len(list) = 1 THEN list[1]
    ELSE list[1] \o sep \o Join(Tail(list), sep)

\* str.replace(" ", "")
RemoveSpaces(s) ==
    SelectSeq(s, LAMBDA c : c # " ")

RECURSIVE Before(_, _)
\* the text before the first occurrence of the character c, all of s if none
Before(s, c) ==
    IF s = << >> \/ Head(s) = c THEN << >>
    ELSE << Head(s) >> \o Before(Tail(s), c)

\* filename.rsplit(".", 1)[0] when "." is in filename: the text before the last "."
BeforeLastDot(s) ==
    IF \E i \in DOMAIN s : s[i] = "."
    THEN LET last == CHOOSE i \in DOMAIN s :
                         s[i] = "." /\ \A j \in DOMAIN s : s[j] = "." => j <= i
         IN  SubSeq(s, 1, last - 1)
    ELSE s

RECURSIVE FindGroups(_)
\* re.findall(r"\(([^)]+)\)", s): from left to right, the text between a "("
\* and the first ")" after it when that text is not empty
FindGroups(s) ==
    IF s = << >> THEN << >>
    ELSE IF Head(s) = "("
         THEN LET rest == Tail(s)
                  body == Before(rest, ")")
              IN  IF Len(body) >= 1 /\ Len(body) < Len(rest)
                  THEN << body >> \o FindGroups(SubSeq(rest, Len(body) + 2, Len(rest)))
                  ELSE FindGroups(rest)
         ELSE FindGroups(Tail(s))

RECURSIVE RemoveGroups(_)
\* re.sub(r"\s*\([^)]*\)", "", s): from left to right, a run of whitespace
\* followed by "(", any text without ")" and ")" is removed
RemoveGroups(s) ==
    IF s = << >> THEN << >>
    ELSE LET after == LStripSpace(s)
         IN  IF /\ after # << >>
                /\ Head(after) = "("
                /\ \E i \in DOMAIN Tail(after) : Tail(after)[i] = ")"
             THEN LET rest == Tail(after)
                      body == Before(rest, ")")
                  IN  RemoveGroups(SubSeq(rest, Len(body) + 2, Len(rest)))
             ELSE << Head(s) >> \o RemoveGroups(Tail(s))

RECURSIVE ReplaceIgnoreCase(_, _, _)
\* re.compile(re.escape(alias), re.IGNORECASE).sub(canonical, s)
ReplaceIgnoreCase(s, alias, canonical) ==
    IF Len(s) < Len(alias) THEN s
    ELSE IF Lower(SubSeq(s, 1, Len(alias))) = Lower(alias)
         THEN canonical
              \o ReplaceIgnoreCase(SubSeq(s, Len(alias) + 1, Len(s)), alias, canonical)
         ELSE << Head(s) >> \o ReplaceIgnoreCase(Tail(s), alias, canonical)

RECURSIVE DropRepeatedWords(_, _)
\* normalize_platform_name: a word equal, case-insensitively, to the word before
\* it is dropped; prev is the lower-cased word before, None at the start
DropRepeatedWords(words, prev) ==
    IF words = << >> THEN << >>
    ELSE LET lw == Lower(Head(words))
         IN  (IF prev = Some(lw) THEN << >> ELSE << Head(words) >>)
             \o DropRepeatedWords(Tail(words), Some(lw))

\* normalize_platform_name
normalize_platform_name(platform) ==
    LET lower_platform == Lower(platform)
        hits == {i \in DOMAIN platform_aliases :
                    Contains(platform_aliases[i][1], lower_platform)}
        replaced ==
            IF hits = {} THEN platform
            ELSE LET first == CHOOSE i \in hits : \A j \in hits : i <= j
                 IN  ReplaceIgnoreCase(platform, platform_aliases[first][1],
                                       platform_aliases[first][2])
        split == SplitSep(Before(replaced, "("), << " ", "-", " " >>)
        parts == [i \in DOMAIN split |-> StripSpace(split[i])]
        tokens == DropRepeatedWords(SplitSpace(Join(parts, << " " >>)), None)
        cleaned_tokens == SelectSeq(tokens, LAMBDA t : ~InList(Lower(t), ignored_folders))
    IN  Title(StripSpace(Join(cleaned_tokens, << " " >>)))

\* _extract_region
regions ==
    { <<"u","s">>, <<"e","u">>, <<"j","p">>, <<"p","a","l">>,
      <<"e","u","r","o","p","e">>, <<"u","s","a">>, <<"j","a","p","a","n">>,
      <<"n","t","s","c">>, <<"c","h","i","n","a">>, <<"k","o","r","e","a">> }

RECURSIVE extract_region(_)
extract_region(meta_parts) ==
    IF meta_parts = << >> THEN None
    ELSE IF Lower(Head(meta_parts)) \in regions THEN Some(Upper(Head(meta_parts)))
    ELSE extract_region(Tail(meta_parts))

\* _extract_languages: lang_map, as pairs (key, code)
lang_map ==
    << << <<"e","n">>, <<"E","N">> >>,
       << <<"e","n","g","l","i","s","h">>, <<"E","N">> >>,
       << <<"f","r">>, <<"F","R">> >>,
       << <<"f","r","e","n","c","h">>, <<"F","R">> >>,
       << <<"d","e">>, <<"D","E">> >>,
       << <<"g","e","r","m","a","n">>, <<"D","E">> >>,
       << <<"e","s">>, <<"E","S">> >>,
       << <<"i","t","a","l","i","a","n">>, <<"I","T">> >>,
       << <<"i","t">>, <<"I","T">> >>,
       << <<"j","p">>, <<"J","P">> >>,
       << <<"j","a","p","a","n","e","s","e">>, <<"J","P">> >> >>

\* re.match(r"^[a-z]{2}(,[a-z]{2})*$", p): pairs of lower-case letters
\* separated by commas; $ also matches before a newline that ends p
IsLanguageList(p) ==
    LET q == IF p # << >> /\ p[Len(p)] = "U+000A"
             THEN SubSeq(p, 1, Len(p) - 1) ELSE p
    IN  /\ Len(q) % 3 = 2
        /\ \A i \in DOMAIN q :
              IF i % 3 = 0 THEN q[i] = ","
              ELSE IndexOf(q[i], LowerLetters) # 0

RECURSIVE extract_languages(_)
extract_languages(meta_parts) ==
    IF meta_parts = << >> THEN << >>
    ELSE LET p_low == RemoveSpaces(Lower(Head(meta_parts)))
             langs == Split(p_low, ",")
             found ==
                 IF IsLanguageList(p_low)
                 THEN [i \in DOMAIN langs |-> Upper(StripSpace(langs[i]))]
                 ELSE IF \E i \in DOMAIN lang_map : lang_map[i][1] = p_low
                 THEN << lang_map[CHOOSE i \in DOMAIN lang_map :
                                      lang_map[i][1] = p_low][2] >>
                 ELSE << >>
         IN  found \o extract_languages(Tail(meta_parts))

\* [x.upper() for x in languages]
AllOccurrences(languages, seen_langs) ==
    [i \in DOMAIN languages |-> Upper(languages[i])]

RECURSIVE FirstOccurrences(_, _)
\* [x.upper() for x in languages if not (x in seen_langs or seen_langs.add(x))]
FirstOccurrences(languages, seen_langs) ==
    IF languages = << >> THEN << >>
    ELSE IF Head(languages) \in seen_langs
         THEN FirstOccurrences(Tail(languages), seen_langs)
         ELSE << Upper(Head(languages)) >>
              \o FirstOccurrences(Tail(languages), seen_langs \cup {Head(languages)})

\* _extract_version
versions ==
    << <<"d","e","c","r","y","p","t","e","d">>, <<"e","n","c","r","y","p","t","e","d">> >>

\* version_keywords with "nkit" first
version_keywords_short_first ==
    << <<"n","k","i","t">>, <<"n","k","i","t"," ","r","v","z">>, <<"r","v","z">> >>

version_keywords ==
    << <<"n","k","i","t"," ","r","v","z">>, <<"n","k","i","t">>, <<"r","v","z">> >>

\* the element of list at the least of the positions hits, None if there is none
FirstAt(list, hits) ==
    IF hits = {} THEN None
    ELSE Some(list[CHOOSE i \in hits : \A j \in hits : i <= j])

extract_version(meta_parts, parts, platform_raw) ==
    LET in_meta ==
            FirstAt(meta_parts,
                    {i \in DOMAIN meta_parts : InList(Lower(meta_parts[i]), versions)})
        parent_folders == [i \in 1..(Len(parts) - 1) |-> Lower(parts[i])]
        in_parent ==
            FirstAt(versions,
                    {v \in DOMAIN versions :
                        \E i \in DOMAIN parent_folders :
                            Contains(versions[v], parent_folders[i])})
        in_platform ==
            FirstAt(version_keywords,
                    {k \in DOMAIN version_keywords :
                        Contains(version_keywords[k], Lower(platform_raw))})
    IN  IF in_meta # None THEN Some(Title(in_meta[1]))
        ELSE IF in_parent # None THEN Some(Title(in_parent[1]))
        ELSE IF in_platform # None THEN Some(Title(in_platform[1]))
        ELSE None

\* parse_metadata_from_path: None, an IndexError (the platform rule reads a
\* path segment that does not exist), or the metadata
parse_metadata_from_path(url_path, base_url) ==
    IF ~EndsWith(url_path, << ".", "z", "i", "p" >>)
    THEN [kind |-> "None"]
    ELSE
      LET parts == Split(Strip(url_path, "/"), "/")
          low == Lower(url_path)
          \* the Python index the platform rule reads last
          need == IF Contains(<<"t","o","s","e","c">>, low)
                     /\ Contains(<<"g","a","m","e","s">>, low) THEN 2
                  ELSE IF Contains(<<"w","h","o","_","l","e","e">>, Unquote(low)) THEN 3
                  ELSE 1
      IN  IF need >= Len(parts)
          THEN [kind |-> "IndexError"]
          ELSE
            LET platform_raw ==
                    Unquote(IF need = 2 THEN parts[2] \o << " ", "-", " " >> \o parts[3]
                            ELSE parts[need + 1])
                file_name == Unquote(parts[Len(parts)])
                title == BeforeLastDot(file_name)
                meta_parts == FindGroups(title)
                languages == FirstOccurrences(extract_languages(meta_parts), {})
            IN  [kind |-> "meta",
                 title |-> StripSpace(RemoveGroups(title)),
                 platform |-> normalize_platform_name(platform_raw),
                 collection |-> Unquote(parts[1]),
                 region |-> extract_region(meta_parts),
                 language |-> IF languages = << >> THEN None
                              ELSE Some(Join(languages, << "," >>)),
                 version |-> extract_version(meta_parts, parts, platform_raw),
                 url |-> base_url \o LStrip(url_path, "/")]

\* _get_batch: for _ in range(8)
BatchSize ==
    8

\* any(ig in unquote(folder).lower() for ig in ignored_folders)
matches_ignored_folders(folder) ==
    \E i \in DOMAIN ignored_folders :
        Contains(ignored_folders[i], Lower(Unquote(folder)))

RECURSIVE get_batch_loop(_, _, _, _, _)
\* _get_batch, the loop with n iterations left
get_batch_loop(n, queue, seen, batch, count) ==
    IF n = 0 \/ queue = << >>
    THEN [queue |-> queue, visited |-> seen, batch |-> batch, processed |-> count]
    ELSE
      LET folder == Head(queue)
      IN  IF folder \in seen
          THEN get_batch_loop(n - 1, Tail(queue), seen, batch, count)
          ELSE IF matches_ignored_folders(folder)
          THEN get_batch_loop(n - 1, Tail(queue), seen \cup {folder}, batch, count)
          ELSE get_batch_loop(n - 1, Tail(queue), seen \cup {folder},
                              Append(batch, folder), count + 1)

RECURSIVE get_batch_loop_unchecked(_, _, _, _, _)
\* get_batch_loop without the test "folder not in ctx.visited"
get_batch_loop_unchecked(n, queue, seen, batch, count) ==
    IF n = 0 \/ queue = << >>
    THEN [queue |-> queue, visited |-> seen, batch |-> batch, processed |-> count]
    ELSE
      LET folder == Head(queue)
      IN  IF matches_ignored_folders(folder)
          THEN get_batch_loop_unchecked(n - 1, Tail(queue), seen \cup {folder},
                                        batch, count)
          ELSE get_batch_loop_unchecked(n - 1, Tail(queue), seen \cup {folder},
                                        Append(batch, folder), count + 1)

\* _get_batch without that test
get_batch_unchecked(queue, seen, count) ==
    get_batch_loop_unchecked(BatchSize, queue, seen, << >>, count)

\* _get_batch with a loop over the whole queue
get_batch_all(queue, seen, count) ==
    get_batch_loop(Len(queue), queue, seen, << >>, count)

\* _get_batch: the batch, and the queue, visited and processed it leaves
get_batch(queue, seen, count) ==
    get_batch_loop(BatchSize, queue, seen, << >>, count)

\* The files table: INSERT OR REPLACE.  A row replaced because of its url is
\* deleted and the new row gets a fresh rowid.
MaxRowid(table) ==
    IF table = {} THEN 0
    ELSE CHOOSE m \in {r.rowid : r \in table} : \A r \in table : r.rowid <= m

insert_or_replace(table, rec) ==
    {r \in table : r.url # rec.url}
        \cup {[rec EXCEPT !.rowid = MaxRowid(table) + 1]}

\* A value bound to the INTEGER column size: text made of digits only is
\* stored as an integer, any other text is stored as text.
AllDigits(v) ==
    /\ v # << >>
    /\ \A i \in DOMAIN v : IndexOf(v[i], HexDigits) \in 1..10

SizeColumn(v) ==
    [type |-> IF AllDigits(v) THEN "INTEGER" ELSE "TEXT", value |-> v]

RECURSIVE process_entries_abort(_, _, _, _, _, _)
\* process_entries leaving the loop at the first entry whose INSERT raises
process_entries_abort(folder, entries, i, bad, table, folders) ==
    IF i > Len(entries) \/ i \in bad
    THEN [kind |-> "return", table |-> table, folders |-> folders]
    ELSE
      LET entry == entries[i]
          name == entry.name
          decoded == Unquote(Lower(Strip(name, "/")))
      IN  IF InList(decoded, ignored_base_folders)
          THEN process_entries_abort(folder, entries, i + 1, bad, table, folders)
          ELSE IF EndsWith(name, << "/" >>)
          THEN process_entries_abort(folder, entries, i + 1, bad, table,
                                     Append(folders, folder \o name))
          ELSE
            LET meta == parse_metadata_from_path(folder \o name, BaseUrl)
            IN  IF meta.kind = "IndexError"
                THEN [kind |-> "IndexError", table |-> table, folders |-> folders]
                ELSE IF meta.kind = "None"
                THEN process_entries_abort(folder, entries, i + 1, bad, table, folders)
                ELSE process_entries_abort(folder, entries, i + 1, bad,
                        insert_or_replace(table,
                            [rowid |-> 0,
                             url |-> meta.url,
                             title |-> meta.title,
                             platform |-> normalize_platform_name(meta.platform),
                             collection |-> meta.collection,
                             region |-> meta.region,
                             language |-> meta.language,
                             version |-> meta.version,
                             size |-> SizeColumn(entry.size),
                             last_modified |-> entry.last_modified]),
                        folders)

\* _process_folder, the loop over the entries of a fetched listing.
\* bad is the set of entry positions whose INSERT raises sqlite3.Error.
RECURSIVE process_entries(_, _, _, _, _, _)
process_entries(folder, entries, i, bad, table, folders) ==
    IF i > Len(entries)
    THEN [kind |-> "return", table |-> table, folders |-> folders]
    ELSE
      LET entry == entries[i]
          name == entry.name
          decoded == Unquote(Lower(Strip(name, "/")))
      IN  IF InList(decoded, ignored_base_folders)
          THEN process_entries(folder, entries, i + 1, bad, table, folders)
          ELSE IF EndsWith(name, << "/" >>)
          THEN process_entries(folder, entries, i + 1, bad, table,
                               Append(folders, folder \o name))
          ELSE
            LET meta == parse_metadata_from_path(folder \o name, BaseUrl)
            IN  IF meta.kind = "IndexError"
                THEN [kind |-> "IndexError", table |-> table, folders |-> folders]
                ELSE IF meta.kind = "None" \/ i \in bad
                THEN process_entries(folder, entries, i + 1, bad, table, folders)
                ELSE process_entries(folder, entries, i + 1, bad,
                        insert_or_replace(table,
                            [rowid |-> 0,
                             url |-> meta.url,
                             title |-> meta.title,
                             platform |-> normalize_platform_name(meta.platform),
                             collection |-> meta.collection,
                             region |-> meta.region,
                             language |-> meta.language,
                             version |-> meta.version,
                             size |-> SizeColumn(entry.size),
                             last_modified |-> entry.last_modified]),
                        folders)

\* The positions of the entries whose INSERT is attempted
InsertPositions(folder, entries) ==
    {i \in DOMAIN entries :
        /\ ~InList(Unquote(Lower(Strip(entries[i].name, "/"))), ignored_base_folders)
        /\ ~EndsWith(entries[i].name, << "/" >>)
        /\ parse_metadata_from_path(folder \o entries[i].name, BaseUrl).kind = "meta"}

\* ------------------------------------------------------------------------
\* crawler.py: the statements of rescan_database on the files table
\* ------------------------------------------------------------------------

\* str.removeprefix(prefix)
RemovePrefix(s, prefix) ==
    IF StartsWith(s, prefix) THEN SubSeq(s, Len(prefix) + 1, Len(s)) ELSE s

\* The code points of the ASCII characters
CharCodes ==
    [c \in {ByteChar(b) : b \in 0..127} |->
        CHOOSE b \in 0..127 : ByteChar(b) = c]

\* The code point of a character; the characters that stand for text outside
\* ASCII sort after every ASCII character
CharCode(c) ==
    IF c \in DOMAIN CharCodes THEN CharCodes[c] ELSE 65533

RECURSIVE TextLessFrom(_, _, _)
\* a < b in the BINARY collation of the url column, a and b being equal
\* before position i
TextLessFrom(a, b, i) ==
    IF i > Len(a) THEN i <= Len(b)
    ELSE IF i > Len(b) THEN FALSE
    ELSE IF a[i] = b[i] THEN TextLessFrom(a, b, i + 1)
    ELSE CharCode(a[i]) < CharCode(b[i])

TextLess(a, b) ==
    TextLessFrom(a, b, 1)

\* SELECT url FROM files: SQLite scans the index of the primary key, which
\* yields the urls in ascending order: the url at position i is the one with
\* i - 1 urls before it
select_urls(table) ==
    LET found == {r.url : r \in table}
        placed == {<< Cardinality({v \in found : TextLess(v, u)}) + 1, u >> : u \in found}
    IN  SubSeq([i \in 1..Cardinality(found) |-> (CHOOSE p \in placed : p[1] = i)[2]],
               1, Cardinality(found))

\* An UPDATE that also resets the columns the listing filled
update_files_all(table, meta) ==
    {IF r.url = meta.url
     THEN [r EXCEPT !.title = meta.title,
                    !.platform = meta.platform,
                    !.collection = meta.collection,
                    !.region = meta.region,
                    !.language = meta.language,
                    !.version = meta.version,
                    !.size = [type |-> "NULL", value |-> << >>],
                    !.last_modified = << >>]
     ELSE r : r \in table}

\* UPDATE files SET title, platform, collection, region, language, version
\* WHERE url = meta["url"]
update_files(table, meta) ==
    {IF r.url = meta.url
     THEN [r EXCEPT !.title = meta.title,
                    !.platform = meta.platform,
                    !.collection = meta.collection,
                    !.region = meta.region,
                    !.language = meta.language,
                    !.version = meta.version]
     ELSE r : r \in table}

RECURSIVE Like(_, _)
\* text LIKE pattern: % matches any run of characters, _ any one character,
\* any other character itself, the ASCII letters without regard to case
Like(pattern, text) ==
    IF pattern = << >> THEN text = << >>
    ELSE IF Head(pattern) = "%"
         THEN \/ Like(Tail(pattern), text)
              \/ text # << >> /\ Like(pattern, Tail(text))
    ELSE IF text = << >> THEN FALSE
    ELSE IF Head(pattern) = "_" THEN Like(Tail(pattern), Tail(text))
    ELSE /\ LowerChar(Head(pattern)) = LowerChar(Head(text))
         /\ Like(Tail(pattern), Tail(text))

\* delete_ignored_platforms: patterns = [f"%{p}%" for p in ignored]
patterns ==
    LET ignored == ignored_base_folders \o ignored_folders
    IN  [i \in DOMAIN ignored |-> << "%" >> \o ignored[i] \o << "%" >>]

\* LOWER(column) LIKE ? for one of the patterns
like_any(column) ==
    \E i \in DOMAIN patterns : Like(patterns[i], Lower(column))

\* A WHERE clause with the url group only
where_clause_url(r) ==
    like_any(r.url)

\* delete_ignored_platforms, the WHERE clause: the three OR groups
where_clause(r) ==
    like_any(r.url) \/ like_any(r.platform) \/ like_any(r.title)

\* delete_ignored_platforms: the rowids of the matching rows are selected and
\* deleted batch by batch within the transaction that is open
delete_ignored_platforms(table) ==
    {r \in table : ~where_clause(r)}

\* ------------------------------------------------------------------------
\* downloader.py: Downloader
\* ------------------------------------------------------------------------

\* The URLs the callers enqueue: BaseUrl followed by a stored path
Url1 ==
    BaseUrl \o << "A", "/", "P", "/", "g", ".", "z", "i", "p" >>

Url2 ==
    BaseUrl \o << "A", "/", "P", "/", "h", "%", "2", "0", "2", ".", "z", "i", "p" >>

Urls ==
    {Url1, Url2}

RECURSIVE CutAt(_, _)
\* the text before the first character of stops
CutAt(s, stops) ==
    IF s = << >> \/ Head(s) \in stops THEN << >>
    ELSE << Head(s) >> \o CutAt(Tail(s), stops)

\* urlparse(url).path: the text after "scheme:" and after "//netloc", up to the
\* query or the fragment
UrlPath(url) ==
    LET scheme == CutAt(url, {":", "/", "?", "#"})
        rest == IF Len(scheme) > 0 /\ Len(scheme) < Len(url) /\ url[Len(scheme) + 1] = ":"
                THEN SubSeq(url, Len(scheme) + 2, Len(url))
                ELSE url
        after == IF StartsWith(rest, << "/", "/" >>)
                 THEN LET tail == SubSeq(rest, 3, Len(rest))
                          netloc == CutAt(tail, {"/", "?", "#"})
                      IN  SubSeq(tail, Len(netloc) + 1, Len(tail))
                 ELSE rest
    IN  CutAt(after, {"?", "#"})

\* Path(unquote(parsed.path)).name: the last component of the decoded path
FileName(url) ==
    LET parts == Split(RStrip(Unquote(UrlPath(url)), "/"), "/")
    IN  parts[Len(parts)]

\* _download_file: filename = Path(unquote(parsed.path)).name, for each URL
filename ==
    [u \in Urls |-> FileName(u)]

\* The threads that run Downloader.start, and the workers each may spawn
Starters ==
    {"s1", "s2"}

\* Bounds of the model: the constructor's max_file_workers and the add_url
\* calls of a behaviour
MaxFileWorkers ==
    1

MaxJobs ==
    2

Workers ==
    Starters \X (1..MaxFileWorkers)

\* ------------------------------------------------------------------------
\* State
\* ------------------------------------------------------------------------

VARIABLES
    site,          \* which of Sites the server holds (fixed during a behaviour)
    cpc,           \* where crawl_and_index is: idle, loop, collect, aborting,
                   \* returned, raised
    folder_queue,  \* ctx.folder_queue
    visited,       \* ctx.visited
    processed,     \* the local processed of crawl_and_index
    progress_callback,  \* the argument progress_callback: "None" or "sink"
    reported,      \* history: the calls of the sink made by this run
    futures,       \* future_to_folder of the running _process_batch
    store,         \* the committed rows of the files table
    exc,           \* the exception leaving crawl_and_index, or "none"
    fetch_count,   \* history: per folder, the listing fetches of this run
    put_count,     \* history: per folder, the puts on folder_queue of this run
    faults,        \* history: the injected failures so far
    clean,         \* history: no failure was injected in this run
    runs           \* history: how each finished run ended, and the store then

\* The state of the crawl but faults
crawlState ==
    << site, cpc, folder_queue, visited, processed, futures, store, exc,
       fetch_count, put_count, clean, runs, progress_callback, reported >>


VARIABLES
    download_queue,    \* self.download_queue, the queued URLs
    unfinished_tasks,  \* the queue's count of puts not matched by task_done
    processes,         \* self.processes, as indexes into procs
    cancel_flag,       \* self.cancel_flag
    download_running,  \* self.download_running
    spc,               \* per start call: none, check, spawn, join, done, noop
    total_files,       \* per start call: its local total_files
    completed_files,   \* per start call: its local completed_files
    wpc,               \* per worker: where it is
    wjob,              \* per worker: url, proc, process_finished and
                       \* total_files of the job it handles
    kpc,               \* cancel_all: idle, drain, terminate, done
    procs,             \* every subprocess launched: url, state, unread (a
                       \* line waits in its pipe), opened (it has created its
                       \* output file) and (history) late: launched with the
                       \* flag set
    files,             \* the names of the files in output_dir
    added,             \* history: the add_url calls so far
    late,              \* history: per worker, its launches with the flag set
    finished           \* history: the jobs reported complete, as indexes of procs

dlVars ==
    << download_queue, unfinished_tasks, processes, cancel_flag,
       download_running, spc, total_files, completed_files, wpc, wjob, kpc,
       procs, files, added, late, finished >>


VARIABLES
    rpc,      \* where rescan_database is: idle, loop, commit, complete (it
              \* returned after its last commit), rolled_back (it returned
              \* after conn.rollback()), raised (an exception left it)
    backup,   \* the backup file: None, or the rows copied into it
    urls,     \* the local urls of rescan_database
    ri,       \* the position in urls of the next url of the loop (i)
    txn,      \* the rows as the connection of rescan_database sees them: the
              \* committed rows and the changes of its open transaction
    rescans,  \* history: the calls of rescan_database so far
    before,   \* history: the committed rows when the running call began
    pure      \* a call of a function without state: the function, its
              \* argument and the values returned so far

rescanVars ==
    << rpc, backup, urls, ri, txn, rescans, before >>

\* rescan_database has not been called
RescanIdle ==
    /\ rpc = "idle"
    /\ backup = << >>
    /\ urls = << >>
    /\ ri = 0
    /\ txn = {}
    /\ rescans = 0
    /\ before = {}

\* No function without state is being called
PureIdle ==
    pure = [fn |-> "none"]

VARIABLES
    ppc,           \* where crawl_and_index is with its executor: idle,
                   \* running (inside the with block), closed
    pool,          \* the tasks submitted to the executor, in the order of
                   \* submission: state, the thread that runs the task (0:
                   \* none yet), the local local_conn of _process_folder
    thread_local,  \* ctx.thread_local: for each thread that has set the
                   \* attribute conn, the connection it holds
    opened,        \* history: for each connection, the thread that opened it
    conn_users     \* history: for each connection, the threads that used it

poolVars ==
    << ppc, pool, thread_local, opened, conn_users >>

\* crawl_and_index is not running
PoolIdle ==
    /\ ppc = "idle"
    /\ pool = << >>
    /\ thread_local = << >>
    /\ opened = << >>
    /\ conn_users = << >>
\* Bounds of the model
MaxRuns ==
    2

MaxFaults ==
    1

Bump(f, x) ==
    IF x \in DOMAIN f THEN [f EXCEPT ![x] = @ + 1] ELSE f @@ (x :> 1)

\* ------------------------------------------------------------------------
\* crawl_and_index
\* ------------------------------------------------------------------------

CrawlInit ==
    /\ site \in {s \in DOMAIN Sites : Sites[s] # SiteWide}
    /\ cpc = "idle"
    /\ folder_queue = << >>
    /\ visited = {}
    /\ processed = 0
    /\ progress_callback = "None"
    /\ reported = 0
    /\ futures = << >>
    /\ store = {}
    /\ exc = "none"
    /\ fetch_count = << >>
    /\ put_count = << >>
    /\ faults = 0
    /\ clean = TRUE
    /\ runs = << >>

\* The values of the argument progress_callback: None, or a callable
Callbacks ==
    {"None", "sink"}

\* The calls made of the sink by n statements "if progress_callback:
\* progress_callback(...)" with an unguarded call
sink_calls_unguarded(callback, n) ==
    n

\* The calls made of the sink by n statements "if progress_callback:
\* progress_callback(...)"
sink_calls(callback, n) ==
    IF callback # "None" THEN n ELSE 0

\* Calling None raises TypeError
CallRaises(callback, calls) ==
    callback = "None" /\ calls > 0

\* A TypeError raised by a call of the sink leaves crawl_and_index (no task
\* is running then), and ctx is discarded with it
SinkRaise ==
    /\ cpc' = "raised"
    /\ exc' = "TypeError"
    /\ runs' = Append(runs, [outcome |-> "raised", store |-> store, clean |-> clean,
                             left |-> {}])
    /\ UNCHANGED << site, progress_callback, reported, folder_queue, visited,
                    processed, futures, store, fetch_count, put_count, faults, clean >>

\* crawl_and_index up to its while loop: the table is created if absent, the
\* context is built and the root path is put on the queue.
CrawlStart ==
    /\ cpc \in {"idle", "returned", "raised"}
    /\ Len(runs) < MaxRuns
    /\ cpc' = "loop"
    /\ progress_callback' \in Callbacks
    /\ reported' = 0
    /\ folder_queue' = << << >> >>
    /\ visited' = {}
    /\ processed' = 0
    /\ futures' = << >>
    /\ fetch_count' = << >>
    /\ put_count' = (<< >> :> 1)
    /\ clean' = TRUE
    /\ exc' = "none"
    /\ UNCHANGED << site, store, faults, runs >>
    /\ UNCHANGED << dlVars, rescanVars, pure, poolVars >>

\* while not ctx.folder_queue.empty(): the queue is empty, the function
\* reports "Indexing done." and returns
CrawlLoopExit ==
    /\ cpc = "loop"
    /\ folder_queue = << >>
    /\ LET calls == sink_calls(progress_callback, 1)
       IN  IF CallRaises(progress_callback, calls) THEN SinkRaise
           ELSE /\ cpc' = "returned"
                /\ reported' = reported + calls
                /\ runs' = Append(runs, [outcome |-> "returned", store |-> store,
                                         clean |-> clean, left |-> {}])
                /\ UNCHANGED << site, progress_callback, exc, folder_queue, visited,
                                processed, futures, store, fetch_count, put_count,
                                faults, clean >>
    /\ UNCHANGED << dlVars, rescanVars, pure, poolVars >>

\* _get_batch reports each folder it marks visited ("Processing", "Ignoring")
batch_reports(seen, b) ==
    Cardinality(b.visited \ seen)

\* _get_batch returned an empty batch: break, "Indexing done." is reported
\* and the function returns
CrawlBatchEmpty ==
    /\ cpc = "loop"
    /\ folder_queue # << >>
    /\ LET b == get_batch(folder_queue, visited, processed)
           calls == sink_calls(progress_callback, batch_reports(visited, b) + 1)
       IN  /\ b.batch = << >>
           /\ IF CallRaises(progress_callback, calls) THEN SinkRaise
              ELSE /\ folder_queue' = b.queue
                   /\ visited' = b.visited
                   /\ processed' = b.processed
                   /\ reported' = reported + calls
                   /\ runs' = Append(runs, [outcome |-> "returned", store |-> store,
                                            clean |-> clean,
                                            left |-> {b.queue[i] : i \in DOMAIN b.queue}])
                   /\ cpc' = "returned"
                   /\ UNCHANGED << site, progress_callback, exc, futures, store,
                                   fetch_count, put_count, faults, clean >>
    /\ UNCHANGED << dlVars, rescanVars, pure, poolVars >>

\* _get_batch returned folders: _process_batch submits one task per folder
CrawlDispatch ==
    /\ cpc = "loop"
    /\ folder_queue # << >>
    /\ LET b == get_batch(folder_queue, visited, processed)
           calls == sink_calls(progress_callback, batch_reports(visited, b))
       IN  /\ b.batch # << >>
           /\ IF CallRaises(progress_callback, calls) THEN SinkRaise
              ELSE /\ folder_queue' = b.queue
                   /\ visited' = b.visited
                   /\ processed' = b.processed
                   /\ reported' = reported + calls
                   /\ futures' = [i \in DOMAIN b.batch |->
                                    [folder |-> b.batch[i], state |-> "submitted",
                                     entries |-> << >>, result |-> << >>, bad |-> {}]]
                   /\ cpc' = "collect"
                   /\ UNCHANGED << site, progress_callback, exc, store, fetch_count,
                                   put_count, faults, clean, runs >>
    /\ UNCHANGED << dlVars, rescanVars, pure, poolVars >>

\* The exceptions requests.get and raise_for_status raise; none of them is a
\* subclass of the builtin ConnectionError or TimeoutError.
RequestsErrors ==
    {"requests.ConnectionError", "requests.Timeout", "requests.HTTPError"}

\* The builtin exceptions _process_folder and _process_batch catch
BuiltinErrors ==
    {"ConnectionError", "TimeoutError"}

\* A worker runs _process_folder up to the end of fetch_folder_listing
FolderFetch(i) ==
    /\ cpc \in {"collect", "aborting"}
    /\ futures[i].state = "submitted"
    /\ fetch_count' = Bump(fetch_count, futures[i].folder)
    /\ LET url == FolderUrl(futures[i].folder)
       IN  \/ /\ HasPage(site, url)
              /\ futures' = [futures EXCEPT ![i].state = "fetched",
                                            ![i].entries = fetch_folder_listing(site, url)]
              /\ UNCHANGED << faults, clean >>
           \/ /\ faults < MaxFaults
              /\ \E e \in BuiltinErrors :
                    \* except (ConnectionError, TimeoutError): return []
                    futures' = [futures EXCEPT ![i].state = "done"]
              /\ faults' = faults + 1
              /\ clean' = FALSE
           \/ /\ faults < MaxFaults
              /\ \E e \in RequestsErrors :
                    futures' = [futures EXCEPT ![i].state = e]
              /\ faults' = faults + 1
              /\ clean' = FALSE
    /\ UNCHANGED << site, progress_callback, reported, exc, cpc, folder_queue, visited, processed, store, put_count, runs >>
    /\ UNCHANGED << dlVars, rescanVars, pure, poolVars >>

\* A worker runs the rest of _process_folder: the loop over the entries in one
\* transaction of its connection, then commit and return.
FolderProcess(i) ==
    /\ cpc \in {"collect", "aborting"}
    /\ futures[i].state = "fetched"
    /\ \E bad \in SUBSET InsertPositions(futures[i].folder, futures[i].entries) :
          /\ Cardinality(bad) <= MaxFaults - faults
          /\ LET r == process_entries(futures[i].folder, futures[i].entries, 1, bad,
                                      store, << >>)
             IN  \/ /\ r.kind = "return"
                    /\ store' = r.table
                    /\ futures' = [futures EXCEPT ![i].state = "done",
                                                  ![i].result = r.folders,
                                                  ![i].bad = bad]
                 \/ /\ r.kind = "IndexError"
                    /\ store' = store
                    /\ futures' = [futures EXCEPT ![i].state = "IndexError"]
          /\ faults' = faults + Cardinality(bad)
          /\ clean' = (clean /\ bad = {})
    /\ UNCHANGED << site, progress_callback, reported, exc, cpc, folder_queue, visited, processed, fetch_count,
                    put_count, runs >>
    /\ UNCHANGED << dlVars, rescanVars, pure, poolVars >>

RECURSIVE put_new(_, _, _, _)
\* for nf in new_folders: if nf not in ctx.visited: ctx.folder_queue.put(nf)
put_new(new_folders, seen, queue, counts) ==
    IF new_folders = << >> THEN [queue |-> queue, counts |-> counts]
    ELSE IF Head(new_folders) \in seen
         THEN put_new(Tail(new_folders), seen, queue, counts)
         ELSE put_new(Tail(new_folders), seen, Append(queue, Head(new_folders)),
                      Bump(counts, Head(new_folders)))

AllCollected(fs) ==
    \A j \in DOMAIN fs : fs[j].state = "collected"

\* The lines reported after each batch: two rules, the batch time, the total
\* time and the folders processed
BatchLines ==
    5

\* as_completed yields a finished future whose task returned; after the last
\* one _process_batch returns and the batch is reported
CollectResult(i) ==
    /\ cpc = "collect"
    /\ futures[i].state = "done"
    /\ LET p == put_new(futures[i].result, visited, folder_queue, put_count)
           fs == [futures EXCEPT ![i].state = "collected"]
           calls == IF AllCollected(fs) THEN sink_calls(progress_callback, BatchLines)
                    ELSE 0
       IN  IF CallRaises(progress_callback, calls) THEN SinkRaise
           ELSE /\ folder_queue' = p.queue
                /\ put_count' = p.counts
                /\ futures' = fs
                /\ reported' = reported + calls
                /\ cpc' = IF AllCollected(fs) THEN "loop" ELSE "collect"
                /\ UNCHANGED << site, progress_callback, exc, visited, processed, store,
                                fetch_count, faults, clean, runs >>
    /\ UNCHANGED << dlVars, rescanVars, pure, poolVars >>

\* as_completed yields a finished future whose task raised an exception that
\* _process_batch does not catch: it leaves _process_batch and the while loop
CollectRaise(i) ==
    /\ cpc = "collect"
    /\ futures[i].state \in RequestsErrors \cup {"IndexError"}
    /\ cpc' = "aborting"
    /\ exc' = futures[i].state
    /\ UNCHANGED << site, progress_callback, reported, folder_queue, visited, processed, futures, store,
                    fetch_count, put_count, faults, clean, runs >>
    /\ UNCHANGED << dlVars, rescanVars, pure, poolVars >>

Finished(f) ==
    f.state \notin {"submitted", "fetched"}

\* The executor's with block waits for the running tasks; then the exception
\* leaves crawl_and_index
CrawlRaise ==
    /\ cpc = "aborting"
    /\ \A j \in DOMAIN futures : Finished(futures[j])
    /\ cpc' = "raised"
    /\ runs' = Append(runs, [outcome |-> "raised", store |-> store, clean |-> clean,
                             left |-> {}])
    /\ UNCHANGED << site, progress_callback, reported, exc, folder_queue, visited, processed, futures, store,
                    fetch_count, put_count, faults, clean >>
    /\ UNCHANGED << dlVars, rescanVars, pure, poolVars >>

CrawlNext ==
    \/ CrawlStart
    \/ CrawlLoopExit
    \/ CrawlBatchEmpty
    \/ CrawlDispatch
    \/ \E i \in DOMAIN futures : FolderFetch(i)
    \/ \E i \in DOMAIN futures : FolderProcess(i)
    \/ \E i \in DOMAIN futures : CollectResult(i)
    \/ \E i \in DOMAIN futures : CollectRaise(i)
    \/ CrawlRaise


\* ------------------------------------------------------------------------
\* crawler.py: rescan_database
\* ------------------------------------------------------------------------

\* rescan_database: if i % 100 == 0: conn.commit()
CommitEvery ==
    100

\* The number of rows of the large database
BigRows ==
    101

\* The decimal digits of a number below 1000
Digits(n) ==
    LET d == [k \in 0..9 |-> HexDigits[k + 1]]
    IN  (IF n >= 100 THEN << d[n \div 100] >> ELSE << >>)
        \o (IF n >= 10 THEN << d[(n \div 10) % 10] >> ELSE << >>)
        \o << d[n % 10] >>

\* A database as a crawl of SiteMixed leaves it
DbCrawled ==
    LET ap == << "A", "/", "P", "/" >>
        apq == << "A", "/", "P", "/", "Q", "/" >>
        first == process_entries(ap, fetch_folder_listing(5, FolderUrl(ap)),
                                 1, {}, {}, << >>).table
    IN  process_entries(apq, fetch_folder_listing(5, FolderUrl(apq)),
                        1, {}, first, << >>).table

\* A database written by an earlier release of the crawler, which stored the
\* file name as the title and the folder name as the platform, and indexed
\* .chd files; its last row is a file named mdk.zip
DbStale ==
    { [rowid |-> 1, url |-> BaseUrl \o << "A", "/", "P", "/", "g", "%", "2", "0", "(", "U", "S", "A", ")", ".", "z", "i", "p" >>,
        title |-> << "g", " ", "(", "U", "S", "A", ")" >>, platform |-> << "P" >>,
        collection |-> << "A" >>, region |-> None, language |-> None, version |-> None,
        size |-> SizeColumn(<< "5", " ", "M", "i", "B" >>), last_modified |-> << "d", "2" >>],
      [rowid |-> 2, url |-> BaseUrl \o << "N", "/", "s", "n", "k", " ", "-", " ", "n", "e", "o", "-", "g", "e", "o", "/", "k", " ", "(", "E", "n", ",", "F", "r", ")", ".", "z", "i", "p" >>,
        title |-> << "k", " ", "(", "E", "n", ",", "F", "r", ")" >>, platform |-> << "s", "n", "k", " ", "-", " ", "n", "e", "o", "-", "g", "e", "o" >>,
        collection |-> << "N" >>, region |-> None, language |-> None, version |-> None,
        size |-> SizeColumn(<< "2", "0", "4", "8" >>), last_modified |-> << "d", "3" >>],
      [rowid |-> 3, url |-> BaseUrl \o << "A", "/", "P", "/", "x", ".", "c", "h", "d" >>,
        title |-> << "x" >>, platform |-> << "P" >>,
        collection |-> << "A" >>, region |-> None, language |-> None, version |-> None,
        size |-> SizeColumn(<< "7", "7" >>), last_modified |-> << "d", "4" >>],
      [rowid |-> 4, url |-> BaseUrl \o << "A", "/", "P", "/", "d", "%", "6", "5", "m", "o", ".", "z", "i", "p" >>,
        title |-> << "d", "%", "6", "5", "m", "o" >>, platform |-> << "P" >>,
        collection |-> << "A" >>, region |-> None, language |-> None, version |-> None,
        size |-> SizeColumn(<< "9" >>), last_modified |-> << "d", "5" >>],
      [rowid |-> 5, url |-> BaseUrl \o << "A", "/", "m", "y", "%", "6", "2", "i", "o", "s", "/", "r", ".", "z", "i", "p" >>,
        title |-> << "r" >>, platform |-> << "m", "y", "%", "6", "2", "i", "o", "s" >>,
        collection |-> << "A" >>, region |-> None, language |-> None, version |-> None,
        size |-> SizeColumn(<< "3", " ", "K", "i", "B" >>), last_modified |-> << "d", "6" >>],
      [rowid |-> 6, url |-> BaseUrl \o << "A", "/", "P", "/", "1", "2", "3", "4", "5", "6", "7", "8", ".", "z", "i", "p" >>,
        title |-> << "1", "2", "3", "4", "5", "6", "7", "8" >>, platform |-> << "P" >>,
        collection |-> << "A" >>, region |-> None, language |-> None, version |-> None,
        size |-> SizeColumn(<< "6", "4" >>), last_modified |-> << "d", "8" >>],
      [rowid |-> 7, url |-> BaseUrl \o << "A", "/", "P", "/", "m", "d", "k", ".", "z", "i", "p" >>,
        title |-> << "m", "d", "k" >>, platform |-> << "P" >>,
        collection |-> << "A" >>, region |-> None, language |-> None, version |-> None,
        size |-> SizeColumn(<< "8", "8" >>), last_modified |-> << "d", "9" >>] }

\* A database of that release holding a file that lies directly under the root
DbShort ==
    { [rowid |-> 1, url |-> BaseUrl \o << "A", "/", "P", "/", "g", "%", "2", "0", "(", "U", "S", "A", ")", ".", "z", "i", "p" >>,
        title |-> << "g", " ", "(", "U", "S", "A", ")" >>, platform |-> << "P" >>,
        collection |-> << "A" >>, region |-> None, language |-> None, version |-> None,
        size |-> SizeColumn(<< "5", " ", "M", "i", "B" >>), last_modified |-> << "d", "2" >>],
      [rowid |-> 2, url |-> BaseUrl \o << "g", ".", "z", "i", "p" >>,
        title |-> << "g" >>, platform |-> <<  >>,
        collection |-> <<  >>, region |-> None, language |-> None, version |-> None,
        size |-> SizeColumn(<< "1", "2" >>), last_modified |-> << "d", "7" >>] }

\* A database of that release with more rows than one commit interval
DbBig ==
    {[rowid |-> n, url |-> BaseUrl \o << "A", "/", "P", "/", "g" >> \o Digits(n)
                              \o << ".", "z", "i", "p" >>,
      title |-> << "g" >> \o Digits(n) \o << ".", "z", "i", "p" >>,
      platform |-> << "P" >>, collection |-> << "A" >>,
      region |-> None, language |-> None, version |-> None,
      size |-> SizeColumn(Digits(n)), last_modified |-> << "d", "1" >>] : n \in 1..BigRows}

\* A database of that release with one row more, whose row at the position
\* of the first commit is a .chd file (the urls s101 .. sort by their number)
DbSkip ==
    {[rowid |-> n, url |-> BaseUrl \o << "A", "/", "P", "/", "s" >> \o Digits(CommitEvery + n)
                              \o (IF n = CommitEvery THEN << ".", "c", "h", "d" >>
                                   ELSE << ".", "z", "i", "p" >>),
      title |-> << "s" >> \o Digits(CommitEvery + n) \o << ".", "z", "i", "p" >>,
      platform |-> << "P" >>, collection |-> << "A" >>,
      region |-> None, language |-> None, version |-> None,
      size |-> SizeColumn(Digits(n)), last_modified |-> << "d", "1" >>] : n \in 1..(BigRows + 1)}

Databases ==
    { DbCrawled, DbStale, DbShort, DbBig, DbSkip }

\* As copy_backup below, without the test of Path.exists
copy_backup_always(file, database) ==
    Some(database)

\* rescan_database: if not Path.exists(backup_path): shutil.copy2(db_path,
\* backup_path).  The backup file after these lines.
copy_backup(file, database) ==
    IF file = None THEN Some(database) ELSE file

\* rescan_database up to its loop: the backup is made if there is none, the
\* connection is opened and the urls are read.  An error of the SELECT is
\* raised before the try statement and leaves rescan_database.
RescanStart ==
    /\ rpc \in {"idle", "complete", "rolled_back", "raised"}
    /\ rescans < MaxRuns
    /\ rescans' = rescans + 1
    /\ backup' = copy_backup(backup, store)
    /\ before' = store
    /\ txn' = store
    /\ \/ /\ urls' = select_urls(store)
          /\ ri' = 1
          /\ rpc' = "loop"
          /\ UNCHANGED faults
       \/ /\ faults < MaxFaults
          /\ faults' = faults + 1
          /\ urls' = << >>
          /\ ri' = 0
          /\ rpc' = "raised"
    /\ UNCHANGED << crawlState, dlVars, pure, poolVars >>

\* rescan_database, one pass of the loop over urls.  A url whose metadata is
\* absent is skipped by continue, which also skips the commit of this pass.
\* sqlite3.Error raised by the UPDATE or by the commit is caught: rollback and
\* return.  An IndexError of parse_metadata_from_path is not caught: the
\* connection is closed with its transaction open, and the exception leaves.
RescanStep ==
    /\ rpc = "loop"
    /\ ri <= Len(urls)
    /\ LET url == urls[ri]
           url_path == RemovePrefix(url, BaseUrl)
           meta == parse_metadata_from_path(url_path, BaseUrl)
       IN  IF meta.kind = "None"
           THEN /\ ri' = ri + 1
                /\ UNCHANGED << rpc, txn, store, faults >>
           ELSE IF meta.kind = "IndexError"
           THEN /\ rpc' = "raised"
                /\ txn' = store
                /\ UNCHANGED << ri, store, faults >>
           ELSE
             LET updated ==
                     update_files(txn,
                         [meta EXCEPT !.platform = normalize_platform_name(meta.platform)])
             IN  \/ /\ ri' = ri + 1
                    /\ txn' = updated
                    /\ store' = IF ri % CommitEvery = 0 THEN updated ELSE store
                    /\ UNCHANGED << rpc, faults >>
                 \/ /\ faults < MaxFaults
                    /\ faults' = faults + 1
                    /\ rpc' = "rolled_back"
                    /\ txn' = store
                    /\ UNCHANGED << ri, store >>
    /\ UNCHANGED << site, progress_callback, reported, cpc, folder_queue, visited, processed, futures, exc,
                    fetch_count, put_count, clean, runs >>
    /\ UNCHANGED << backup, urls, rescans, before >>
    /\ UNCHANGED << dlVars, pure, poolVars >>

\* rescan_database after the loop: delete_ignored_platforms
RescanPurge ==
    /\ rpc = "loop"
    /\ ri > Len(urls)
    /\ \/ /\ txn' = delete_ignored_platforms(txn)
          /\ rpc' = "commit"
          /\ UNCHANGED faults
       \/ /\ faults < MaxFaults
          /\ faults' = faults + 1
          /\ rpc' = "rolled_back"
          /\ txn' = store
    /\ UNCHANGED << crawlState, dlVars, pure, poolVars >>
    /\ UNCHANGED << backup, urls, ri, rescans, before >>

\* rescan_database: the last conn.commit(), and the return
RescanCommit ==
    /\ rpc = "commit"
    /\ \/ /\ store' = txn
          /\ rpc' = "complete"
          /\ UNCHANGED << txn, faults >>
       \/ /\ faults < MaxFaults
          /\ faults' = faults + 1
          /\ rpc' = "rolled_back"
          /\ txn' = store
          /\ UNCHANGED store
    /\ UNCHANGED << site, progress_callback, reported, cpc, folder_queue, visited, processed, futures, exc,
                    fetch_count, put_count, clean, runs >>
    /\ UNCHANGED << backup, urls, ri, rescans, before >>
    /\ UNCHANGED << dlVars, pure, poolVars >>

RescanNext ==
    \/ RescanStart
    \/ RescanStep
    \/ RescanPurge
    \/ RescanCommit

\* ------------------------------------------------------------------------
\* crawler.py: calls of normalize_platform_name and parse_metadata_from_path
\* ------------------------------------------------------------------------

\* Bounds of the inputs: the words of a platform name, the folders of a path
MaxWords ==
    3

MaxFolders ==
    3

Words ==
    { << "s", "n", "k" >>, << "n", "e", "o", "-", "g", "e", "o" >>, << "-" >>, << "b", "i", "o", "s" >>, << "x" >>, << "(", "a", ")" >> }

FolderNames ==
    { << "A" >>,
      << "P" >>,
      << "t", "o", "s", "e", "c" >>,
      << "g", "a", "m", "e", "s" >>,
      << "w", "h", "o", "_", "l", "e", "e" >>,
      << "D", "e", "c", "r", "y", "p", "t", "e", "d" >>,
      << "N", "K", "i", "t", "%", "2", "0", "R", "V", "Z" >>,
      << "r", "v", "z" >> }

FileNames ==
    { << "g", ".", "z", "i", "p" >>,
      << "1", "2", "3", "4", "5", "6", "7", "8", ".", "z", "i", "p" >>,
      << "a", "b", "c", "1", "2", "3", "4", "5", " ", "(", "U", "S", "A", ")", ".", "z", "i", "p" >>,
      << "a", "b", "c", "d", "1", "2", "3", "4", ".", "z", "i", "p" >>,
      << "n", ".", "t", "x", "t" >>,
      << "k", " ", "(", "E", "n", ",", "F", "r", ")", " ", "(", "f", "r", ",", "D", "E", ")", ".", "z", "i", "p" >>,
      << "g", " ", "(", "E", "N", "C", "R", "Y", "P", "T", "E", "D", ")", " ", "(", "E", "n", "g", "l", "i", "s", "h", ")", ".", "z", "i", "p" >> }

\* The texts made of at most n elements of S with sep between them
Joined(S, n, sep) ==
    {Join(q, sep) : q \in UNION {[1..k -> S] : k \in 0..n}}

PlatformInputs ==
    Joined(Words, MaxWords, << " " >>)

PathInputs ==
    {IF d = << >> THEN f ELSE d \o << "/" >> \o f :
        d \in Joined(FolderNames, MaxFolders, << "/" >>), f \in FileNames}

\* Bound of the inputs: the rows of a listing page
MaxRows ==
    3

\* The hrefs of the rows: the parent link, the self link, a folder, a file
Hrefs ==
    { << ".", ".", "/" >>, << ".", "/" >>, << "P", "/" >>, << "g", ".", "z", "i", "p" >> }

PageInputs ==
    UNION {[1..k -> {Row(h, << "-" >>, << "d", "1" >>) : h \in Hrefs}] : k \in 0..MaxRows}

PureCalls ==
    {[fn |-> "normalize", arg |-> x, out |-> << >>] : x \in PlatformInputs}
        \cup {[fn |-> "parse", arg |-> x, out |-> << >>] : x \in PathInputs}
        \cup {[fn |-> "listing", arg |-> x, out |-> << >>] : x \in PageInputs}

\* normalize_platform_name applied to the argument, then to its own result
\* (as _process_folder and rescan_database apply it to the platform that
\* parse_metadata_from_path has normalised)
Normalize ==
    /\ pure.fn = "normalize"
    /\ Len(pure.out) < 2
    /\ pure' = [pure EXCEPT !.out =
                    Append(@, normalize_platform_name(
                                  IF @ = << >> THEN pure.arg ELSE @[Len(@)]))]
    /\ UNCHANGED << crawlState, faults, dlVars, rescanVars, poolVars >>

\* parse_metadata_from_path applied to the argument
Parse ==
    /\ pure.fn = "parse"
    /\ pure.out = << >>
    /\ pure' = [pure EXCEPT !.out = << parse_metadata_from_path(pure.arg, BaseUrl) >>]
    /\ UNCHANGED << crawlState, faults, dlVars, rescanVars, poolVars >>

\* fetch_folder_listing applied to a page (the argument), then the loop of
\* _process_folder over its result for the folder A/P/ and an empty table
Listing ==
    /\ pure.fn = "listing"
    /\ pure.out = << >>
    /\ LET entries == listing_entries(pure.arg)
           r == process_entries(<< "A", "/", "P", "/" >>, entries, 1, {}, {}, << >>)
       IN  pure' = [pure EXCEPT !.out = << entries, r.folders >>]
    /\ UNCHANGED << crawlState, faults, dlVars, rescanVars, poolVars >>

PureNext ==
    \/ Normalize
    \/ Parse
    \/ Listing

\* ------------------------------------------------------------------------
\* crawler.py: the executor of crawl_and_index and the connections of its
\* threads
\* ------------------------------------------------------------------------

\* Bound of the model: the tasks submitted during one crawl
MaxTasks ==
    4

\* ThreadPoolExecutor(max_workers=8)
max_workers ==
    8

\* The thread that runs crawl_and_index; the threads of the executor are
\* 1 .. max_workers, numbered in the order in which they first run a task
MainThread ==
    0

\* The connection conn that crawl_and_index opens; the connections opened by
\* get_connection are numbered from 1 in the order of their opening
MainConn ==
    0

\* crawl_and_index up to its with block: conn is opened, the table is created
\* and committed on it, ctx is built with an empty threading.local()
PoolInit ==
    /\ ppc = "running"
    /\ pool = << >>
    /\ thread_local = << >>
    /\ opened = (MainConn :> MainThread)
    /\ conn_users = (MainConn :> {MainThread})

\* As get_connection below, with the attribute conn held by an object that
\* all threads share
get_connection_shared(local, t, fresh) ==
    IF DOMAIN local # {}
    THEN (t :> local[CHOOSE u \in DOMAIN local : TRUE]) @@ local
    ELSE (t :> fresh)

\* CrawlContext.get_connection called by thread t: ctx.thread_local after the
\* call; fresh is the connection that sqlite3.connect would open
get_connection(local, t, fresh) ==
    IF t \in DOMAIN local THEN local ELSE (t :> fresh) @@ local

\* Thread t uses connection c
Use(users, c, t) ==
    IF c \in DOMAIN users THEN [users EXCEPT ![c] = @ \cup {t}]
    ELSE (c :> {t}) @@ users

Returned(tasks) ==
    \A k \in DOMAIN tasks : tasks[k].state = "returned"

\* The threads of the executor that have run a task
Started(tasks) ==
    {tasks[k].thread : k \in DOMAIN tasks} \ {MainThread}

\* The threads that are running a task
Busy(tasks) ==
    {tasks[k].thread : k \in {j \in DOMAIN tasks :
                                 tasks[j].state \in {"running", "connected"}}}

\* _process_batch submits the n folders of a batch; the batch before it has
\* been collected
SubmitBatch(n) ==
    /\ ppc = "running"
    /\ Returned(pool)
    /\ Len(pool) + n <= MaxTasks
    /\ pool' = pool \o [i \in 1..n |-> [state |-> "queued", thread |-> MainThread,
                                        conn |-> None]]
    /\ UNCHANGED << ppc, thread_local, opened, conn_users >>
    /\ UNCHANGED << crawlState, faults, dlVars, rescanVars, pure >>

\* A thread of the executor that runs no task takes task k and calls
\* _process_folder
WorkerStart(k, t) ==
    /\ ppc = "running"
    /\ pool[k].state = "queued"
    /\ t \notin Busy(pool)
    /\ t <= Cardinality(Started(pool)) + 1
    /\ pool' = [pool EXCEPT ![k].state = "running", ![k].thread = t]
    /\ UNCHANGED << ppc, thread_local, opened, conn_users >>
    /\ UNCHANGED << crawlState, faults, dlVars, rescanVars, pure >>

\* _process_folder: fetch_folder_listing raises, and the task ends before
\* get_connection is called
WorkerNoListing(k) ==
    /\ pool[k].state = "running"
    /\ pool' = [pool EXCEPT ![k].state = "returned"]
    /\ UNCHANGED << ppc, thread_local, opened, conn_users >>
    /\ UNCHANGED << crawlState, faults, dlVars, rescanVars, pure >>

\* _process_folder: local_conn = ctx.get_connection(); cursor =
\* local_conn.cursor()
WorkerConnect(k) ==
    /\ pool[k].state = "running"
    /\ LET t == pool[k].thread
           fresh == Cardinality(DOMAIN opened)
           local == get_connection(thread_local, t, fresh)
           local_conn == local[t]
       IN  /\ thread_local' = local
           /\ opened' = IF local_conn \in DOMAIN opened THEN opened
                        ELSE (local_conn :> t) @@ opened
           /\ conn_users' = Use(conn_users, local_conn, t)
           /\ pool' = [pool EXCEPT ![k].state = "connected",
                                   ![k].conn = Some(local_conn)]
    /\ UNCHANGED ppc
    /\ UNCHANGED << crawlState, faults, dlVars, rescanVars, pure >>

\* _process_folder: the loop over the entries with its cursor.execute, then
\* local_conn.commit() and the return
WorkerCommit(k) ==
    /\ pool[k].state = "connected"
    /\ conn_users' = Use(conn_users, pool[k].conn[1], pool[k].thread)
    /\ pool' = [pool EXCEPT ![k].state = "returned"]
    /\ UNCHANGED << ppc, thread_local, opened >>
    /\ UNCHANGED << crawlState, faults, dlVars, rescanVars, pure >>

\* crawl_and_index after its loop: the with block has waited for the tasks;
\* if hasattr(ctx.thread_local, "conn"): ctx.thread_local.conn.close();
\* conn.close()
CloseConnections ==
    /\ ppc = "running"
    /\ Returned(pool)
    /\ ppc' = "closed"
    /\ conn_users' =
          LET mine == IF MainThread \in DOMAIN thread_local
                      THEN Use(conn_users, thread_local[MainThread], MainThread)
                      ELSE conn_users
          IN  Use(mine, MainConn, MainThread)
    /\ UNCHANGED << pool, thread_local, opened >>
    /\ UNCHANGED << crawlState, faults, dlVars, rescanVars, pure >>

PoolNext ==
    \/ \E n \in 1..BatchSize : SubmitBatch(n)
    \/ \E k \in DOMAIN pool : \E t \in 1..max_workers : WorkerStart(k, t)
    \/ \E k \in DOMAIN pool : WorkerNoListing(k)
    \/ \E k \in DOMAIN pool : WorkerConnect(k)
    \/ \E k \in DOMAIN pool : WorkerCommit(k)
    \/ CloseConnections
\* ------------------------------------------------------------------------
\* downloader.py: Downloader
\* ------------------------------------------------------------------------

NoJob ==
    [url |-> << >>, proc |-> 0, process_finished |-> FALSE, total_files |-> 0]

\* Downloader.__init__
DlInit ==
    /\ download_queue = << >>
    /\ unfinished_tasks = 0
    /\ processes = << >>
    /\ cancel_flag = FALSE
    /\ download_running = FALSE
    /\ spc = [s \in Starters |-> "none"]
    /\ total_files = [s \in Starters |-> 0]
    /\ completed_files = [s \in Starters |-> 0]
    /\ wpc = [w \in Workers |-> "unborn"]
    /\ wjob = [w \in Workers |-> NoJob]
    /\ kpc = "idle"
    /\ procs = << >>
    /\ files = {}
    /\ added = 0
    /\ late = [w \in Workers |-> 0]
    /\ finished = {}

Min(a, b) ==
    IF a < b THEN a ELSE b

\* add_url, called on the UI thread
AddUrl(u) ==
    /\ kpc \in {"idle", "done"}
    /\ added < MaxJobs
    /\ added' = added + 1
    /\ download_queue' = Append(download_queue, u)
    /\ unfinished_tasks' = unfinished_tasks + 1
    /\ UNCHANGED << processes, cancel_flag, download_running, spc, total_files,
                    completed_files, wpc, wjob, kpc, procs, files,
                    late, finished >>
    /\ UNCHANGED << crawlState, faults, rescanVars, pure, poolVars >>

\* start_download, on the UI thread: if self.downloader.download_running:
\* return; else a thread is started whose target is Downloader.start
StartCall(s) ==
    /\ kpc \in {"idle", "done"}
    /\ spc[s] = "none"
    /\ spc' = [spc EXCEPT ![s] = IF download_running THEN "noop" ELSE "check"]
    /\ UNCHANGED << download_queue, unfinished_tasks, processes, cancel_flag,
                    download_running, total_files, completed_files,
                    wpc, wjob, kpc, procs, files, added, late, finished >>
    /\ UNCHANGED << crawlState, faults, rescanVars, pure, poolVars >>

\* start: if self.download_running: return; else total_files = qsize()
StartCheck(s) ==
    /\ spc[s] = "check"
    /\ IF download_running
       THEN /\ spc' = [spc EXCEPT ![s] = "noop"]
            /\ UNCHANGED total_files
       ELSE /\ spc' = [spc EXCEPT ![s] = "spawn"]
            /\ total_files' = [total_files EXCEPT ![s] = Len(download_queue)]
    /\ UNCHANGED << download_queue, unfinished_tasks, processes, cancel_flag,
                    download_running, completed_files,
                    wpc, wjob, kpc, procs, files, added, late, finished >>
    /\ UNCHANGED << crawlState, faults, rescanVars, pure, poolVars >>

\* start: the loop that creates and starts min(max_file_workers, total_files)
\* worker threads
StartSpawn(s) ==
    /\ spc[s] = "spawn"
    /\ spc' = [spc EXCEPT ![s] = "join"]
    /\ wpc' = [w \in Workers |->
                 IF w[1] = s /\ w[2] <= Min(MaxFileWorkers, total_files[s])
                 THEN "begin" ELSE wpc[w]]
    /\ UNCHANGED << download_queue, unfinished_tasks, processes, cancel_flag,
                    download_running, total_files, completed_files,
                    wjob, kpc, procs, files, added, late, finished >>
    /\ UNCHANGED << crawlState, faults, rescanVars, pure, poolVars >>

\* start: download_queue.join() returns, then self.download_running = False
StartJoin(s) ==
    /\ spc[s] = "join"
    /\ unfinished_tasks = 0
    /\ spc' = [spc EXCEPT ![s] = "done"]
    /\ download_running' = FALSE
    /\ UNCHANGED << download_queue, unfinished_tasks, processes, cancel_flag,
                    total_files, completed_files,
                    wpc, wjob, kpc, procs, files, added, late, finished >>
    /\ UNCHANGED << crawlState, faults, rescanVars, pure, poolVars >>

\* worker: self.download_running = True
WorkerBegin(w) ==
    /\ wpc[w] = "begin"
    /\ wpc' = [wpc EXCEPT ![w] = "loop"]
    /\ download_running' = TRUE
    /\ UNCHANGED << download_queue, unfinished_tasks, processes, cancel_flag,
                    spc, total_files, completed_files,
                    wjob, kpc, procs, files, added, late, finished >>
    /\ UNCHANGED << crawlState, faults, rescanVars, pure, poolVars >>

\* A worker loop that does not test the cancel flag
WorkerLoopUnflagged(w) ==
    /\ wpc[w] = "loop"
    /\ wpc' = [wpc EXCEPT ![w] = "get"]
    /\ UNCHANGED << download_queue, unfinished_tasks, processes, cancel_flag,
                    download_running, spc, total_files, completed_files, wjob,
                    kpc, procs, files, added, late, finished >>
    /\ UNCHANGED << crawlState, faults, rescanVars, pure, poolVars >>

\* worker: while not self.cancel_flag.is_set()
WorkerLoop(w) ==
    /\ wpc[w] = "loop"
    /\ wpc' = [wpc EXCEPT ![w] = IF cancel_flag THEN "exit" ELSE "get"]
    /\ UNCHANGED << download_queue, unfinished_tasks, processes, cancel_flag,
                    download_running, spc, total_files, completed_files, wjob, kpc, procs, files, added, late,
                    finished >>
    /\ UNCHANGED << crawlState, faults, rescanVars, pure, poolVars >>

\* worker: url = get_nowait(), break on queue.Empty.  (The idx the worker then
\* takes from file_idx_counter only labels its progress reports; it is left out.)
WorkerGet(w) ==
    /\ wpc[w] = "get"
    /\ IF download_queue = << >>
       THEN /\ wpc' = [wpc EXCEPT ![w] = "exit"]
            /\ UNCHANGED << download_queue, wjob >>
       ELSE /\ wpc' = [wpc EXCEPT ![w] = "popen"]
            /\ download_queue' = Tail(download_queue)
            /\ wjob' = [wjob EXCEPT ![w] = [NoJob EXCEPT !.url = Head(download_queue)]]
    /\ UNCHANGED << unfinished_tasks, processes, cancel_flag, download_running,
                    spc, total_files, completed_files, kpc, procs, files, added,
                    late, finished >>
    /\ UNCHANGED << crawlState, faults, rescanVars, pure, poolVars >>

\* _download_file: subprocess.Popen starts the transfer, or raises OSError (the
\* wget binary is missing), which leaves _download_file and the worker
WorkerPopen(w) ==
    /\ wpc[w] = "popen"
    /\ \/ /\ procs' = Append(procs, [url |-> wjob[w].url, state |-> "running",
                                     unread |-> FALSE, opened |-> FALSE,
                                     late |-> cancel_flag])
          /\ wjob' = [wjob EXCEPT ![w].proc = Len(procs) + 1]
          /\ wpc' = [wpc EXCEPT ![w] = "append"]
          /\ late' = [late EXCEPT ![w] = IF cancel_flag THEN @ + 1 ELSE @]
       \/ /\ wpc' = [wpc EXCEPT ![w] = "dead"]
          /\ UNCHANGED << procs, wjob, late >>
    /\ UNCHANGED << download_queue, unfinished_tasks, processes, cancel_flag,
                    download_running, spc, total_files, completed_files, kpc, files, added, finished >>
    /\ UNCHANGED << crawlState, faults, rescanVars, pure, poolVars >>

\* _download_file: self.processes.append(process)
WorkerAppend(w) ==
    /\ wpc[w] = "append"
    /\ processes' = Append(processes, wjob[w].proc)
    /\ wpc' = [wpc EXCEPT ![w] = "read"]
    /\ UNCHANGED << download_queue, unfinished_tasks, cancel_flag, download_running,
                    spc, total_files, completed_files, wjob, kpc,
                    procs, files, added, late, finished >>
    /\ UNCHANGED << crawlState, faults, rescanVars, pure, poolVars >>

\* A terminate that leaves the process running
terminate_ignored(ps, p) ==
    ps

\* Popen.terminate(): a running process is killed, an ended one is left alone
terminate(ps, p) ==
    IF ps[p].state = "running" THEN [ps EXCEPT ![p].state = "killed"] ELSE ps

\* A running transfer holds the file of this name open
Held(ps, name) ==
    \E q \in DOMAIN ps :
        ps[q].state = "running" /\ ps[q].opened /\ filename[ps[q].url] = name

\* A clean-up that removes nothing
keep_partial_files(fs, name, removed) ==
    fs

\* clean_up_partial_files: path.unlink() if the file exists, its errors
\* swallowed.  While a process holds the file open the unlink removes the name
\* or fails with PermissionError, as the platform decides (removed).
clean_up_partial_files(fs, name, removed) ==
    IF removed THEN fs \ {name} ELSE fs

\* _download_file: one pass of "for line in process.stderr" on a line read
WorkerReadLine(w) ==
    /\ wpc[w] = "read"
    /\ procs[wjob[w].proc].unread
    /\ LET p == wjob[w].proc
           taken == [procs EXCEPT ![p].unread = FALSE]
       IN  IF cancel_flag
           THEN \* process.terminate(); break
                /\ procs' = terminate(taken, p)
                /\ wpc' = [wpc EXCEPT ![w] = "finish"]
                /\ UNCHANGED << files >>
           ELSE \/ \* the line is parsed and progress_callback is called
                   /\ procs' = taken
                   /\ UNCHANGED << wpc, files >>
                \/ \* the pass raises (progress_callback, decoding): the
                   \* finally clause runs and the exception leaves the worker
                   /\ procs' = taken
                   /\ wpc' = [wpc EXCEPT ![w] = "dead"]
                   /\ \E removed \in BOOLEAN :
                         /\ (~Held(procs, filename[wjob[w].url]) => removed)
                         /\ files' = clean_up_partial_files(
                                        files, filename[wjob[w].url], removed)
    /\ UNCHANGED << download_queue, unfinished_tasks, processes, cancel_flag,
                    download_running, spc, total_files, completed_files, wjob, kpc, added, late, finished >>
    /\ UNCHANGED << crawlState, faults, rescanVars, pure, poolVars >>

\* _download_file: the for loop ends at end of file
WorkerReadEof(w) ==
    /\ wpc[w] = "read"
    /\ ~procs[wjob[w].proc].unread
    /\ procs[wjob[w].proc].state # "running"
    /\ wpc' = [wpc EXCEPT ![w] = "finish"]
    /\ UNCHANGED << download_queue, unfinished_tasks, processes, cancel_flag,
                    download_running, spc, total_files, completed_files, wjob, kpc, procs, files, added, late,
                    finished >>
    /\ UNCHANGED << crawlState, faults, rescanVars, pure, poolVars >>

\* _download_file: process.wait() returns; if the flag is not set the job is
\* reported complete, else the finally clause removes the file
WorkerFinish(w) ==
    /\ wpc[w] = "finish"
    /\ procs[wjob[w].proc].state # "running"
    /\ IF ~cancel_flag
       THEN /\ wjob' = [wjob EXCEPT ![w].process_finished = TRUE]
            /\ finished' = finished \cup {wjob[w].proc}
            /\ UNCHANGED files
       ELSE /\ \E removed \in BOOLEAN :
                  /\ (~Held(procs, filename[wjob[w].url]) => removed)
                  /\ files' = clean_up_partial_files(
                                 files, filename[wjob[w].url], removed)
            /\ UNCHANGED << wjob, finished >>
    /\ wpc' = [wpc EXCEPT ![w] = "qsize"]
    /\ UNCHANGED << download_queue, unfinished_tasks, processes, cancel_flag,
                    download_running, spc, total_files, completed_files, kpc, procs, added, late >>
    /\ UNCHANGED << crawlState, faults, rescanVars, pure, poolVars >>

\* worker: total_files = self.download_queue.qsize(), a local of the worker
WorkerQsize(w) ==
    /\ wpc[w] = "qsize"
    /\ wjob' = [wjob EXCEPT ![w].total_files = Len(download_queue)]
    /\ wpc' = [wpc EXCEPT ![w] = "count"]
    /\ UNCHANGED << download_queue, unfinished_tasks, processes, cancel_flag,
                    download_running, spc, total_files, completed_files, kpc, procs, files, added, late, finished >>
    /\ UNCHANGED << crawlState, faults, rescanVars, pure, poolVars >>

\* worker: completed_files += 1 under the lock, done_callback when it equals
\* total_files (gui.py: done_callback sets download_running to False), then
\* task_done()
WorkerCount(w) ==
    /\ wpc[w] = "count"
    /\ completed_files' = [completed_files EXCEPT ![w[1]] = @ + 1]
    /\ download_running' =
          IF completed_files[w[1]] + 1 = wjob[w].total_files
          THEN FALSE ELSE download_running
    /\ unfinished_tasks' = unfinished_tasks - 1
    /\ wpc' = [wpc EXCEPT ![w] = "loop"]
    /\ UNCHANGED << download_queue, processes, cancel_flag, spc, total_files, wjob, kpc, procs, files, added, late,
                    finished >>
    /\ UNCHANGED << crawlState, faults, rescanVars, pure, poolVars >>

\* cancel_all: self.cancel_flag.set()
CancelSet ==
    /\ kpc = "idle"
    /\ cancel_flag' = TRUE
    /\ kpc' = "drain"
    /\ UNCHANGED << download_queue, unfinished_tasks, processes, download_running,
                    spc, total_files, completed_files, wpc, wjob,
                    procs, files, added, late, finished >>
    /\ UNCHANGED << crawlState, faults, rescanVars, pure, poolVars >>

\* cancel_all: the queue is emptied with get_nowait(), without task_done()
CancelDrain ==
    /\ kpc = "drain"
    /\ download_queue' = << >>
    /\ kpc' = "terminate"
    /\ UNCHANGED << unfinished_tasks, processes, cancel_flag, download_running,
                    spc, total_files, completed_files, wpc, wjob,
                    procs, files, added, late, finished >>
    /\ UNCHANGED << crawlState, faults, rescanVars, pure, poolVars >>

RECURSIVE terminate_all(_, _)
terminate_all(ps, list) ==
    IF list = << >> THEN ps
    ELSE terminate_all(terminate(ps, Head(list)), Tail(list))

\* cancel_all: p.terminate() for every process of self.processes
CancelTerminate ==
    /\ kpc = "terminate"
    /\ procs' = terminate_all(procs, processes)
    /\ kpc' = "done"
    /\ UNCHANGED << download_queue, unfinished_tasks, processes, cancel_flag,
                    download_running, spc, total_files, completed_files, wpc, wjob, files, added, late, finished >>
    /\ UNCHANGED << crawlState, faults, rescanVars, pure, poolVars >>

\* The transfer subprocess writes a line to stderr, the line before it read;
\* by its first line it has created its output file
ProcEmit(p) ==
    /\ p \in DOMAIN procs
    /\ procs[p].state = "running"
    /\ ~procs[p].unread
    /\ procs' = [procs EXCEPT ![p].unread = TRUE, ![p].opened = TRUE]
    /\ files' = IF procs[p].opened THEN files ELSE files \cup {filename[procs[p].url]}
    /\ UNCHANGED << download_queue, unfinished_tasks, processes, cancel_flag,
                    download_running, spc, total_files, completed_files, wpc, wjob, kpc, added, late, finished >>
    /\ UNCHANGED << crawlState, faults, rescanVars, pure, poolVars >>

\* The transfer subprocess exits by itself with status 0
ProcExit(p) ==
    /\ p \in DOMAIN procs
    /\ procs[p].state = "running"
    /\ procs[p].opened
    /\ procs' = [procs EXCEPT ![p].state = "exited"]
    /\ UNCHANGED << download_queue, unfinished_tasks, processes, cancel_flag,
                    download_running, spc, total_files, completed_files, wpc, wjob, kpc, files, added, late,
                    finished >>
    /\ UNCHANGED << crawlState, faults, rescanVars, pure, poolVars >>

\* The transfer subprocess ends with a non-zero exit status (the server refused
\* the file, the connection was lost); it leaves what it wrote in its output
\* file.  _download_file does not read the exit status.
ProcFail(p) ==
    /\ p \in DOMAIN procs
    /\ procs[p].state = "running"
    /\ procs[p].opened
    /\ procs' = [procs EXCEPT ![p].state = "failed"]
    /\ UNCHANGED << download_queue, unfinished_tasks, processes, cancel_flag,
                    download_running, spc, total_files, completed_files, wpc, wjob, kpc, files, added, late,
                    finished >>
    /\ UNCHANGED << crawlState, faults, rescanVars, pure, poolVars >>

\* Every step of the download manager but the calls of start
DlSteps ==
    \/ \E u \in Urls : AddUrl(u)
    \/ \E s \in Starters : StartCheck(s)
    \/ \E s \in Starters : StartSpawn(s)
    \/ \E s \in Starters : StartJoin(s)
    \/ \E w \in Workers : WorkerBegin(w)
    \/ \E w \in Workers : WorkerLoop(w)
    \/ \E w \in Workers : WorkerGet(w)
    \/ \E w \in Workers : WorkerPopen(w)
    \/ \E w \in Workers : WorkerAppend(w)
    \/ \E w \in Workers : WorkerReadLine(w)
    \/ \E w \in Workers : WorkerReadEof(w)
    \/ \E w \in Workers : WorkerFinish(w)
    \/ \E w \in Workers : WorkerQsize(w)
    \/ \E w \in Workers : WorkerCount(w)
    \/ CancelSet
    \/ CancelDrain
    \/ CancelTerminate
    \/ \E p \in DOMAIN procs : ProcEmit(p)
    \/ \E p \in DOMAIN procs : ProcExit(p)
    \/ \E p \in DOMAIN procs : ProcFail(p)

\* A session in which start is called once
DlNext ==
    \/ StartCall("s1")
    \/ DlSteps

\* A session in which start is called twice, at any time
Dl2Next ==
    \/ \E s \in Starters : StartCall(s)
    \/ DlSteps

\* A session in which start is called again once cancel_all has returned
RetryNext ==
    \/ StartCall("s1")
    \/ (kpc = "done" /\ StartCall("s2"))
    \/ DlSteps

\* The threads are scheduled, and a running transfer whose pipe has room writes
\* its next line (it may run for any time before it exits by itself)
DlFairness ==
    /\ \A s \in Starters :
          WF_dlVars(StartCheck(s) \/ StartSpawn(s) \/ StartJoin(s))
    /\ \A w \in Workers :
          WF_dlVars(\/ WorkerBegin(w) \/ WorkerLoop(w) \/ WorkerGet(w)
                    \/ WorkerPopen(w) \/ WorkerAppend(w) \/ WorkerReadLine(w)
                    \/ WorkerReadEof(w) \/ WorkerFinish(w) \/ WorkerQsize(w)
                    \/ WorkerCount(w))
    /\ WF_dlVars(CancelDrain \/ CancelTerminate)
    /\ \A p \in 1..MaxJobs : WF_dlVars(ProcEmit(p))
\* ------------------------------------------------------------------------
\* Specifications
\* ------------------------------------------------------------------------

vars ==
    << crawlState, faults, dlVars, rescanVars, pure, poolVars >>

\* A crawl, the download manager idle
Init ==
    /\ CrawlInit
    /\ DlInit
    /\ RescanIdle
    /\ PureIdle
    /\ PoolIdle

Next ==
    CrawlNext

Spec ==
    Init /\ [][Next]_vars

\* A crawl of the tree with nine folders under its root, in an environment
\* that injects no failure
WideInit ==
    /\ site \in {s \in DOMAIN Sites : Sites[s] = SiteWide}
    /\ cpc = "idle"
    /\ folder_queue = << >>
    /\ visited = {}
    /\ processed = 0
    /\ progress_callback = "None"
    /\ reported = 0
    /\ futures = << >>
    /\ store = {}
    /\ exc = "none"
    /\ fetch_count = << >>
    /\ put_count = << >>
    /\ faults = MaxFaults
    /\ clean = TRUE
    /\ runs = << >>
    /\ DlInit
    /\ RescanIdle
    /\ PureIdle
    /\ PoolIdle

\* The steps of a crawl that meets no failure and no empty batch
WideNext ==
    \/ CrawlStart
    \/ CrawlLoopExit
    \/ CrawlDispatch
    \/ \E i \in DOMAIN futures : FolderFetch(i)
    \/ \E i \in DOMAIN futures : FolderProcess(i)
    \/ \E i \in DOMAIN futures : CollectResult(i)

WideSpec ==
    WideInit /\ [][WideNext]_vars

\* A download session with one call of start, the crawler idle
DlSpecInit ==
    /\ CrawlInit
    /\ site = 1
    /\ DlInit
    /\ RescanIdle
    /\ PureIdle
    /\ PoolIdle

DlSpec ==
    DlSpecInit /\ [][DlNext]_vars

\* The same session under fair scheduling
DlFairSpec ==
    DlSpec /\ DlFairness

\* Every transfer ends: a subprocess that has opened its output file exits,
\* with status 0 or not
TransfersEnd ==
    \A p \in 1..MaxJobs : WF_dlVars(ProcExit(p) \/ ProcFail(p))

\* The session under fair scheduling, with transfers that all end
DlEndSpec ==
    DlSpec /\ DlFairness /\ TransfersEnd

\* A download session in which start is called twice
Dl2Spec ==
    DlSpecInit /\ [][Dl2Next]_vars

\* A download session with a second call of start after cancel_all, under
\* fair scheduling
RetrySpec ==
    DlSpecInit /\ [][RetryNext]_vars /\ DlFairness


\* A database at rest, then calls of rescan_database; the crawler and the
\* download manager idle
RescanInit ==
    /\ site = 1
    /\ cpc = "idle"
    /\ folder_queue = << >>
    /\ visited = {}
    /\ processed = 0
    /\ progress_callback = "None"
    /\ reported = 0
    /\ futures = << >>
    /\ store \in Databases
    /\ exc = "none"
    /\ fetch_count = << >>
    /\ put_count = << >>
    /\ faults = 0
    /\ clean = TRUE
    /\ runs = << >>
    /\ DlInit
    /\ RescanIdle
    /\ PureIdle
    /\ PoolIdle

RescanSpec ==
    RescanInit /\ [][RescanNext]_vars

\* A call of normalize_platform_name or of parse_metadata_from_path on one of
\* the inputs
PureInit ==
    /\ CrawlInit
    /\ site = 1
    /\ DlInit
    /\ RescanIdle
    /\ pure \in PureCalls
    /\ PoolIdle

PureSpec ==
    PureInit /\ [][PureNext]_vars

\* One crawl seen from its executor: the batches of tasks, the threads that
\* run them and the connections they open
PoolSpecInit ==
    /\ CrawlInit
    /\ site = 1
    /\ DlInit
    /\ RescanIdle
    /\ PureIdle
    /\ PoolInit

PoolSpec ==
    PoolSpecInit /\ [][PoolNext]_vars

\* A step of the thread that runs crawl_and_index
MainStep ==
    CrawlStart \/ CrawlLoopExit \/ CrawlBatchEmpty \/ CrawlDispatch

\* MainStep is enabled: crawl_and_index can be called, or it is at the test
\* of its while loop
MainEnabled ==
    \/ cpc \in {"idle", "returned", "raised"} /\ Len(runs) < MaxRuns
    \/ cpc = "loop"

\* A task holds a fetched listing: FolderProcess is enabled for it
ProcessEnabled ==
    /\ cpc \in {"collect", "aborting"}
    /\ \E i \in DOMAIN futures : futures[i].state = "fetched"

\* The thread of crawl_and_index runs, and the threads of the executor run
\* the tasks submitted to it.  The weak fairness of MainStep and of
\* FolderProcess is written out, with the condition under which each is
\* enabled.
CrawlFairness ==
    /\ WF_vars(\E i \in DOMAIN futures : FolderFetch(i))
    /\ WF_vars(\E i \in DOMAIN futures : CollectResult(i) \/ CollectRaise(i))
    /\ WF_vars(CrawlRaise)
    /\ ([]<>(~MainEnabled) \/ []<><<MainStep>>_vars)
    /\ ([]<>(~ProcessEnabled)
          \/ []<><<\E i \in DOMAIN futures : FolderProcess(i)>>_vars)

\* Crawls of a tree whose every page is served and whose every write
\* succeeds, under fair scheduling
ServedInit ==
    /\ site \in {s \in DOMAIN Sites : Sites[s] # SiteWide}
    /\ cpc = "idle"
    /\ folder_queue = << >>
    /\ visited = {}
    /\ processed = 0
    /\ progress_callback = "None"
    /\ reported = 0
    /\ futures = << >>
    /\ store = {}
    /\ exc = "none"
    /\ fetch_count = << >>
    /\ put_count = << >>
    /\ faults = MaxFaults
    /\ clean = TRUE
    /\ runs = << >>
    /\ DlInit
    /\ RescanIdle
    /\ PureIdle
    /\ PoolIdle

ServedSpec ==
    ServedInit /\ [][Next]_vars /\ CrawlFairness
\* ------------------------------------------------------------------------
\* Properties of the crawl
\* ------------------------------------------------------------------------

SameFolderTwice(fs) ==
    \E i, j \in DOMAIN fs : i # j /\ fs[i].folder = fs[j].folder

(* C1: during one crawl_and_index run no folder path is dispatched to a     *)
(* worker, and so fetched, more than once, in every interleaving of the     *)
(* workers, even when the path was put on the frontier queue several times. *)
C1_FolderFetchedAtMostOnce ==
    /\ \A f \in DOMAIN fetch_count : fetch_count[f] <= 1
    /\ ~SameFolderTwice(futures)
    /\ \A i \in DOMAIN futures :
          futures[i].state = "submitted" => futures[i].folder \notin DOMAIN fetch_count

\* A run has returned in which a folder put on the queue twice was fetched once
C1_Witness ==
    /\ cpc = "returned"
    /\ \E f \in DOMAIN fetch_count : put_count[f] >= 2 /\ fetch_count[f] = 1

(* C2: crawl_and_index completes only when the frontier queue is empty and  *)
(* every dispatched worker has returned; when it returns, no folder that    *)
(* was enqueued, was not yet visited and matches no ignore rule is left     *)
(* unfetched.                                                               *)
C2_ReturnsWithFrontierExhausted ==
    cpc = "returned" =>
        /\ folder_queue = << >>
        /\ \A i \in DOMAIN futures : futures[i].state = "collected"
        /\ \A f \in DOMAIN put_count :
              ~matches_ignored_folders(f) => f \in DOMAIN fetch_count

(* C3: a listing fetch that fails with a connection or timeout error raised *)
(* by fetch_folder_listing yields no records and no subfolders for that     *)
(* folder, is not retried, and the crawl goes on and returns normally: the  *)
(* error never leaves crawl_and_index.                                      *)
C3_FetchFailureIsLocal ==
    /\ exc \notin {"requests.ConnectionError", "requests.Timeout"}
    /\ \A i \in DOMAIN futures :
          futures[i].state \in {"requests.ConnectionError", "requests.Timeout"}
              => /\ futures[i].result = << >>
                 /\ fetch_count[futures[i].folder] = 1

\* The stored records, without the rowid the table gives them
Records(table) ==
    {[url |-> r.url, title |-> r.title, platform |-> r.platform,
      collection |-> r.collection, region |-> r.region, language |-> r.language,
      version |-> r.version, size |-> r.size,
      last_modified |-> r.last_modified] : r \in table}

(* C10: the store never holds two records with the same url, and a second   *)
(* crawl over an unchanged listing (no fetch or store failure in either     *)
(* run) leaves the set of stored records equal to the set after the first.  *)
C10_CrawlIdempotent ==
    /\ \A r1, r2 \in store : r1.url = r2.url => r1 = r2
    /\ (/\ Len(runs) >= 2
        /\ runs[1].outcome = "returned" /\ runs[1].clean
        /\ runs[2].outcome = "returned" /\ runs[2].clean)
            => Records(runs[2].store) = Records(runs[1].store)

\* The name of a folder path: its last segment
FolderName(folder) ==
    LET segments == Split(Strip(folder, "/"), "/")
    IN  segments[Len(segments)]

C19_IgnoredNeverFetched ==
    /\ \A f \in DOMAIN fetch_count : ~matches_ignored_folders(f)
    /\ \A f \in DOMAIN put_count :
          f # << >> => ~InList(Lower(Unquote(FolderName(f))), ignored_base_folders)

(* C27: every record written by a crawl has its size stored as an integer   *)
(* number of bytes, never as the human-readable size text of the listing.   *)
C27_SizeIsInteger ==
    \A r \in store : r.size.type = "INTEGER"

RECURSIVE batch_in_order(_, _, _, _, _)
\* The tasks of a batch run and collected one after the other, in the order
\* of the batch, without failure: the queue and the table they leave
batch_in_order(s, batch, seen, queue, table) ==
    IF batch = << >> THEN [queue |-> queue, table |-> table, raised |-> FALSE]
    ELSE
      LET folder == Head(batch)
          r == process_entries(folder, fetch_folder_listing(s, FolderUrl(folder)),
                               1, {}, table, << >>)
      IN  IF r.kind # "return"
          THEN [queue |-> queue, table |-> table, raised |-> TRUE]
          ELSE batch_in_order(s, Tail(batch), seen,
                              put_new(r.folders, seen, queue, << >>).queue, r.table)

RECURSIVE crawl_in_order(_, _, _, _)
\* The table a crawl leaves under that schedule
crawl_in_order(s, queue, seen, table) ==
    IF queue = << >> THEN table
    ELSE
      LET b == get_batch(queue, seen, 0)
      IN  IF b.batch = << >> THEN table
          ELSE LET c == batch_in_order(s, b.batch, b.visited, b.queue, table)
               IN  IF c.raised THEN c.table
                   ELSE crawl_in_order(s, c.queue, b.visited, c.table)

\* The records of a first crawl of each site under the in-order schedule
InOrderRecords ==
    [s \in DOMAIN Sites |-> Records(crawl_in_order(s, << << >> >>, {}, {}))]

(* C25: the store contents at the end of a crawl do not depend on the       *)
(* interleaving of the worker threads: for a fixed listing and no failures, *)
(* every schedule yields the set of records that the schedule running and   *)
(* collecting the tasks in batch order yields.                              *)
C25_ScheduleIndependent ==
    (cpc = "returned" /\ Len(runs) = 1 /\ clean)
        => Records(store) = InOrderRecords[site]

\* The records the listings of a set of folders give
ListedRecords(s, fetched) ==
    UNION {Records(process_entries(f, fetch_folder_listing(s, FolderUrl(f)),
                                   1, {}, {}, << >>).table) : f \in fetched}

(* C26: a crawl run with no progress sink (progress_callback None) never    *)
(* fails because of reporting: no call of the sink is made and no TypeError *)
(* is raised; and a run without failure, with or without a sink, writes     *)
(* exactly the records of the listings it fetched.                          *)
C26_NoSinkNoEffect ==
    /\ progress_callback = "None" => (exc # "TypeError" /\ reported = 0)
    /\ (cpc = "returned" /\ Len(runs) = 1 /\ clean)
          => Records(store) = ListedRecords(site, DOMAIN fetch_count)

\* A first run without a sink has returned after dispatching two batches or
\* more and storing records
C26_Witness ==
    /\ cpc = "returned"
    /\ Len(runs) = 1
    /\ clean
    /\ progress_callback = "None"
    /\ store # {}
    /\ processed >= 3

\* The tasks of the batch that have not returned
InFlight(fs) ==
    {i \in DOMAIN fs : ~Finished(fs[i])}

(* C30: at most 8 folder fetches are in flight at any time, and a new batch *)
(* is taken from the frontier only after every task of the previous batch   *)
(* has returned and the subfolders it found have been put on the queue.     *)
C30_BatchBarrier ==
    /\ Cardinality(InFlight(futures)) <= BatchSize
    /\ cpc = "loop" => AllCollected(futures)
    /\ \A i \in DOMAIN futures :
          futures[i].state = "collected" =>
              \A k \in DOMAIN futures[i].result :
                  futures[i].result[k] \in visited \cup DOMAIN put_count

\* Eight tasks are in flight while a ninth folder waits on the queue
C30_Witness ==
    /\ Cardinality(InFlight(futures)) = BatchSize
    /\ folder_queue # << >>

(* C34: for every finite tree whose pages are served, crawl_and_index       *)
(* terminates: once it is in its loop, eventually the frontier queue is     *)
(* empty and the function has returned.                                     *)
C34_CrawlTerminates ==
    (cpc = "loop") ~> (cpc = "returned" /\ folder_queue = << >>)

(* C35: no single listing entry can abort a crawl: whatever names a listing *)
(* holds, as long as no fetch and no write fails, no exception raised by a  *)
(* worker leaves crawl_and_index.                                           *)
C35_NoEntryAbortsCrawl ==
    clean => exc = "none"

\* ------------------------------------------------------------------------
\* Properties of rescan_database
\* ------------------------------------------------------------------------

(* C11: rescan is all-or-nothing: when a store error occurred at any point  *)
(* of rescan_database, the store afterwards equals the store before the     *)
(* rescan began; no update or deletion of that rescan remains.              *)
C11_RescanAllOrNothing ==
    rpc = "rolled_back" => store = before

\* text contains, without regard to case, an entry of ignored_base_folders or
\* of ignored_folders
ContainsIgnored(text) ==
    LET ignored == ignored_base_folders \o ignored_folders
    IN  \E i \in DOMAIN ignored : Contains(ignored[i], Lower(text))

(* C12: after a rescan whose purge pass completed and was committed, no     *)
(* stored record has a url, platform or title that contains, without regard *)
(* to case, an entry of ignored_base_folders or of ignored_folders.         *)
C12_PurgeComplete ==
    rpc = "complete" =>
        \A r \in store :
            /\ ~ContainsIgnored(r.url)
            /\ ~ContainsIgnored(r.platform)
            /\ ~ContainsIgnored(r.title)

\* A rescan has completed that deleted a record whose url contains no entry
\* of the ignore lists
C12_Witness ==
    /\ rpc = "complete"
    /\ \E r \in before :
          /\ ~ContainsIgnored(r.url)
          /\ ~\E q \in store : q.url = r.url

(* C20: rescan_database never changes the size or last_modified of a        *)
(* record: every record stored during or after a rescan, committed or not,  *)
(* has both fields equal to their values before the rescan began.           *)
C20_RescanKeepsSizeAndDate ==
    rpc # "idle" =>
        \A r \in store \cup txn :
            \E r0 \in before :
                /\ r0.url = r.url
                /\ r0.size = r.size
                /\ r0.last_modified = r.last_modified

\* A rescan has completed that changed the title of a record it kept
C20_Witness ==
    /\ rpc = "complete"
    /\ \E r \in store :
          \E r0 \in before : r0.url = r.url /\ r0.title # r.title

\* ------------------------------------------------------------------------
\* Properties of normalize_platform_name and parse_metadata_from_path
\* ------------------------------------------------------------------------

(* C13: normalize_platform_name is idempotent: applied to its own result it *)
(* returns that result, normalize(normalize(x)) = normalize(x).             *)
C13_NormalizeIdempotent ==
    (pure.fn = "normalize" /\ Len(pure.out) = 2) => pure.out[2] = pure.out[1]

\* The number of segments of a path
Segments(path) ==
    Len(Split(Strip(path, "/"), "/"))

(* C14: parse_metadata_from_path is total: for a path that ends in an       *)
(* accepted extension and has fewer than the three segments                 *)
(* collection/platform/filename it returns None and never raises.           *)
C14_ParseTotalOnShortPaths ==
    (/\ pure.fn = "parse"
     /\ Len(pure.out) = 1
     /\ EndsWith(pure.arg, << ".", "z", "i", "p" >>)
     /\ Segments(pure.arg) < 3)
        => pure.out[1].kind = "None"

IsDigit(c) ==
    c \in {"0", "1", "2", "3", "4", "5", "6", "7", "8", "9"}

\* The title of a path: the decoded file name without its extension and
\* without its parenthetical groups
CleanTitle(path) ==
    LET parts == Split(Strip(path, "/"), "/")
    IN  StripSpace(RemoveGroups(BeforeLastDot(Unquote(parts[Len(parts)]))))

\* A title that looks like a random identifier: all digits of length at
\* least 8, or alphanumeric of length at least 8 without 4 leading letters
RandomId(title) ==
    /\ Len(title) >= 8
    /\ \A i \in DOMAIN title : IsDigit(title[i]) \/ IsLetter(title[i])
    /\ \/ \A i \in DOMAIN title : IsDigit(title[i])
       \/ ~\A i \in 1..4 : IsLetter(title[i])

(* C15: whenever parse_metadata_from_path returns for a path whose title,   *)
(* with parenthetical groups removed, is all digits of length at least 8,   *)
(* or is alphanumeric of length at least 8 and does not start with at least *)
(* 4 letters, it returns None (the paths it raises on are those of C14).    *)
C15_RandomIdRejected ==
    (/\ pure.fn = "parse"
     /\ Len(pure.out) = 1
     /\ pure.out[1].kind # "IndexError"
     /\ RandomId(CleanTitle(pure.arg)))
        => pure.out[1].kind = "None"

(* C28: fetch_folder_listing never returns an entry named ../ or ./, so the *)
(* crawl never takes a folder's parent link or self link for a child folder *)
(* of it.                                                                   *)
C28_NoParentOrSelfLink ==
    (pure.fn = "listing" /\ Len(pure.out) = 2) =>
        /\ \A i \in DOMAIN pure.out[1] :
              pure.out[1][i].name \notin {<< ".", ".", "/" >>, << ".", "/" >>}
        /\ \A k \in DOMAIN pure.out[2] :
              pure.out[2][k] \notin {<< "A", "/", "P", "/", ".", ".", "/" >>,
                                     << "A", "/", "P", "/", ".", "/" >>}

\* The raw platform token of a path: the segment (or the two segments) the
\* platform rule of the path names, decoded
RawPlatform(path) ==
    LET parts == Split(Strip(path, "/"), "/")
        low == Lower(path)
    IN  Unquote(IF Contains(<< "t", "o", "s", "e", "c" >>, low)
                   /\ Contains(<< "g", "a", "m", "e", "s" >>, low)
                THEN parts[2] \o << " ", "-", " " >> \o parts[3]
                ELSE IF Contains(<< "w", "h", "o", "_", "l", "e", "e" >>, Unquote(low))
                THEN parts[4]
                ELSE parts[2])

\* The position of the first occurrence of x in a list that holds it
FirstIndex(list, x) ==
    CHOOSE i \in DOMAIN list : list[i] = x /\ \A j \in 1..(i - 1) : list[j] # x

\* The parenthetical groups of the file name of a path
Groups(path) ==
    LET parts == Split(Strip(path, "/"), "/")
    IN  FindGroups(BeforeLastDot(Unquote(parts[Len(parts)])))

(* C22: for every path, the language field parse_metadata_from_path         *)
(* returns, when present, is a comma-joined list of codes of two upper-case *)
(* letters with no code repeated, holding the codes of the parenthetical    *)
(* groups in the order of their first occurrence.                           *)
C22_LanguageOrderedUnique ==
    (pure.fn = "parse" /\ Len(pure.out) = 1 /\ pure.out[1].kind = "meta"
        /\ pure.out[1].language # None) =>
        LET codes == Split(pure.out[1].language[1], ",")
            found == extract_languages(Groups(pure.arg))
        IN  /\ codes # << >>
            /\ \A i \in DOMAIN codes :
                  /\ Len(codes[i]) = 2
                  /\ \A k \in 1..2 : IndexOf(codes[i][k], UpperLetters) # 0
            /\ \A i, j \in DOMAIN codes : i # j => codes[i] # codes[j]
            /\ {codes[i] : i \in DOMAIN codes} = {Upper(found[i]) : i \in DOMAIN found}
            /\ \A i, j \in DOMAIN codes :
                  i < j => FirstIndex(found, codes[i]) < FirstIndex(found, codes[j])

\* A call has returned the language EN,FR,DE for a file name whose groups
\* are (En,Fr) and (fr,DE)
C22_Witness ==
    /\ pure.fn = "parse"
    /\ Len(pure.out) = 1
    /\ pure.out[1].kind = "meta"
    /\ Groups(pure.arg) = << << "E", "n", ",", "F", "r" >>, << "f", "r", ",", "D", "E" >> >>
    /\ pure.out[1].language = Some(<< "E", "N", ",", "F", "R", ",", "D", "E" >>)

\* The words a version is read from
Decrypted ==
    << "d", "e", "c", "r", "y", "p", "t", "e", "d" >>

Encrypted ==
    << "e", "n", "c", "r", "y", "p", "t", "e", "d" >>

\* The version the priority rule gives a path: its groups, then its ancestor
\* segments, then its raw platform token
VersionByPriority(path) ==
    LET groups == Groups(path)
        parts == Split(Strip(path, "/"), "/")
        ancestors == {Lower(parts[i]) : i \in 1..(Len(parts) - 1)}
        named == {i \in DOMAIN groups : Lower(groups[i]) \in {Decrypted, Encrypted}}
        platform == Lower(RawPlatform(path))
    IN  IF named # {}
        THEN Some(Title(Lower(groups[CHOOSE i \in named : \A j \in named : i <= j])))
        ELSE IF \E a \in ancestors : Contains(Decrypted, a)
        THEN Some(Title(Decrypted))
        ELSE IF \E a \in ancestors : Contains(Encrypted, a)
        THEN Some(Title(Encrypted))
        ELSE IF Contains(<< "n", "k", "i", "t", " ", "r", "v", "z" >>, platform)
        THEN Some(<< "N", "k", "i", "t", " ", "R", "v", "z" >>)
        ELSE IF Contains(<< "n", "k", "i", "t" >>, platform)
        THEN Some(<< "N", "k", "i", "t" >>)
        ELSE IF Contains(<< "r", "v", "z" >>, platform)
        THEN Some(<< "R", "v", "z" >>)
        ELSE None

(* C23: the version is chosen by strict priority: a parenthetical group     *)
(* equal to decrypted or encrypted wins over any ancestor path segment      *)
(* containing either word, which wins over the raw platform string, where   *)
(* "nkit rvz" is preferred over "nkit" and over "rvz"; the result is one of *)
(* Decrypted, Encrypted, Nkit Rvz, Nkit, Rvz or absent.                     *)
C23_VersionByPriority ==
    (pure.fn = "parse" /\ Len(pure.out) = 1 /\ pure.out[1].kind = "meta") =>
        /\ pure.out[1].version = VersionByPriority(pure.arg)
        /\ pure.out[1].version \in
              {None,
               Some(<< "D", "e", "c", "r", "y", "p", "t", "e", "d" >>),
               Some(<< "E", "n", "c", "r", "y", "p", "t", "e", "d" >>),
               Some(<< "N", "k", "i", "t", " ", "R", "v", "z" >>),
               Some(<< "N", "k", "i", "t" >>),
               Some(<< "R", "v", "z" >>)}

\* A call has returned Encrypted for a file named (ENCRYPTED) under a folder
\* Decrypted and a platform folder NKit RVZ
C23_Witness ==
    /\ pure.fn = "parse"
    /\ Len(pure.out) = 1
    /\ pure.out[1].kind = "meta"
    /\ pure.arg = << "D", "e", "c", "r", "y", "p", "t", "e", "d", "/",
                     "N", "K", "i", "t", "%", "2", "0", "R", "V", "Z", "/",
                     "g", " ", "(", "E", "N", "C", "R", "Y", "P", "T", "E", "D", ")",
                     " ", "(", "E", "n", "g", "l", "i", "s", "h", ")", ".", "z", "i", "p" >>
    /\ pure.out[1].version = Some(<< "E", "n", "c", "r", "y", "p", "t", "e", "d" >>)

RECURSIVE ReplaceFirstIgnoreCase(_, _, _)
\* s with the first span that equals alias, without regard to case, replaced
\* by canonical
ReplaceFirstIgnoreCase(s, alias, canonical) ==
    IF Len(s) < Len(alias) THEN s
    ELSE IF Lower(SubSeq(s, 1, Len(alias))) = Lower(alias)
         THEN canonical \o SubSeq(s, Len(alias) + 1, Len(s))
         ELSE << Head(s) >> \o ReplaceFirstIgnoreCase(Tail(s), alias, canonical)

\* The steps of the platform normalizer in the order of the claim: truncate
\* at the first "(", split on " - " and trim, rejoin and drop a word equal to
\* the word before it, drop the tokens found in ignored_folders, apply the
\* first alias that matches, title-case
StepsInOrder(platform) ==
    LET split == SplitSep(Before(platform, "("), << " ", "-", " " >>)
        parts == [i \in DOMAIN split |-> StripSpace(split[i])]
        tokens == DropRepeatedWords(SplitSpace(Join(parts, << " " >>)), None)
        kept == SelectSeq(tokens, LAMBDA t : ~InList(Lower(t), ignored_folders))
        current == StripSpace(Join(kept, << " " >>))
        hits == {i \in DOMAIN platform_aliases :
                    Contains(platform_aliases[i][1], Lower(current))}
        replaced ==
            IF hits = {} THEN current
            ELSE LET first == CHOOSE i \in hits : \A j \in hits : i <= j
                 IN  ReplaceFirstIgnoreCase(current, platform_aliases[first][1],
                                            platform_aliases[first][2])
    IN  Title(replaced)

(* C32: for every input normalize_platform_name returns the result of the   *)
(* steps in this order: truncate at the first "(", split on " - " and trim, *)
(* rejoin and collapse adjacent repeated words, drop the tokens found in    *)
(* ignored_folders, apply at most one alias (the first that matches), then  *)
(* title-case.                                                              *)
C32_StepsInSpecifiedOrder ==
    (pure.fn = "normalize" /\ Len(pure.out) >= 1)
        => pure.out[1] = StepsInOrder(pure.arg)

\* ------------------------------------------------------------------------
\* Properties of the records a rescan leaves
\* ------------------------------------------------------------------------

(* C21: every record written by a crawl or by a rescan has platform equal   *)
(* to normalize_platform_name applied to the raw platform token derived     *)
(* from its path, and a rescan of records a crawl wrote stores the platform *)
(* the crawl stored.                                                        *)
C21_PlatformIsNormalizedToken ==
    rpc = "complete" =>
        \A r \in store :
            LET path == RemovePrefix(r.url, BaseUrl)
            IN  /\ parse_metadata_from_path(path, BaseUrl).kind = "meta"
                      => r.platform = normalize_platform_name(RawPlatform(path))
                /\ before = DbCrawled
                      => \E r0 \in before : r0.url = r.url /\ r0.platform = r.platform

(* C24: after a completed purge pass no stored record has a title matching  *)
(* the random-ID heuristic (all digits of length at least 8, or             *)
(* alphanumeric of length at least 8 not starting with 4 letters).          *)
C24_PurgeDropsRandomIds ==
    rpc = "complete" => \A r \in store : ~RandomId(r.title)

(* C29: a rescan that fails part-way loses at most one batch: at any moment *)
(* at most 100 records have updates that are not yet committed, whatever    *)
(* the positions of the records the extractor rejects.                      *)
C29_AtMostOneBatchUncommitted ==
    Cardinality({r \in txn : r \notin store}) <= CommitEvery

(* C31: a backup of the store exists before rescan_database writes its      *)
(* first update, and a backup file that already exists is never overwritten *)
(* by a later rescan: once there is a backup, its content stays the same.   *)
C31_BackupOnceBeforeWrites ==
    /\ [](rpc # "idle" => backup # None)
    /\ [][backup # None => backup' = backup]_vars

\* A second rescan is in its loop, it began with a store that differs from
\* the backup, and it has written an update
C31_Witness ==
    /\ rescans = 2
    /\ rpc = "loop"
    /\ backup # None
    /\ backup # Some(before)
    /\ txn # before

(* C39: the purge pass deletes only records that match the ignore ruleset:  *)
(* a record whose url, platform and title contain none of the entries of    *)
(* ignored_base_folders and ignored_folders as a literal substring is still *)
(* stored after the purge.                                                  *)
C39_PurgeDeletesOnlyIgnored ==
    [][(rpc = "loop" /\ rpc' = "commit") =>
          \A r \in txn :
              (/\ ~ContainsIgnored(r.url)
               /\ ~ContainsIgnored(r.platform)
               /\ ~ContainsIgnored(r.title)) => r \in txn']_vars

\* ------------------------------------------------------------------------
\* Properties of the download manager
\* ------------------------------------------------------------------------

\* The workers that are running
LiveWorkers ==
    {w \in Workers : wpc[w] \notin {"unborn", "exit", "dead"}}

\* No start call is about to spawn, no worker runs, no transfer runs
Quiesced ==
    /\ \A s \in Starters : spc[s] \notin {"check", "spawn"}
    /\ LiveWorkers = {}
    /\ \A p \in DOMAIN procs : procs[p].state # "running"

\* C4 as the claim states it: once the cancel flag is set no worker launches a
\* transfer subprocess
C4_NoLaunchAfterCancel ==
    \A w \in Workers : late[w] = 0

\* C4, amended: a worker that tested the flag before cancel_all set it may
\* still launch the transfer of the job it then takes, but every worker
\* launches at most one transfer subprocess after the flag is set
C4_AtMostOneLaunchAfterCancel ==
    \A w \in Workers : late[w] <= 1

\* A worker has launched a transfer after the flag was set, and has left its loop
C4_Witness ==
    \E w \in Workers : late[w] = 1 /\ wpc[w] = "exit"

\* C5: after cancel_all has set the flag, eventually no transfer subprocess
\* runs and every worker loop has ended, and from the moment the flag is set no
\* job is reported complete
C5_CancelStopsEverything ==
    /\ cancel_flag ~> Quiesced
    /\ [][cancel_flag => finished' = finished]_vars

\* cancel_all has returned, a transfer launched after the flag was set has been
\* killed, and nothing runs any more
C5_Witness ==
    /\ kpc = "done"
    /\ Quiesced
    /\ \E p \in DOMAIN procs : procs[p].late /\ procs[p].state = "killed"

\* C6: when the worker finishes a job whose transfer was cancelled, and no
\* other running transfer writes the same file, no file of the job's name is
\* left in the output directory (the transfer writes to the final name; there
\* is no separate partial file)
C6_CancelledJobLeavesNoFile ==
    [][\A w \in Workers :
          (/\ wpc[w] = "finish"
           /\ wpc'[w] = "qsize"
           /\ cancel_flag
           /\ ~Held(procs, filename[wjob[w].url]))
             => filename[wjob[w].url] \notin files']_vars

\* A worker has finished a job whose transfer had created its file and was
\* then killed, and the file is gone
C6_Witness ==
    \E w \in Workers :
        /\ wpc[w] = "qsize"
        /\ cancel_flag
        /\ procs[wjob[w].proc].opened
        /\ procs[wjob[w].proc].state = "killed"
        /\ filename[wjob[w].url] \notin files

\* C7 as the claim states it: an exception raised while a worker handles a job
\* does not end the worker, which goes on to the next job
C7_WorkerSurvivesException ==
    \A w \in Workers : wpc[w] # "dead"

\* C8 as the claim states it: the number of live worker threads never exceeds
\* max_file_workers
C8_StartIdempotent ==
    Cardinality(LiveWorkers) <= MaxFileWorkers

\* C9 as the claim states it: after cancel_all has returned, a job enqueued
\* again and followed by a call of start is eventually downloaded
C9_RetryAfterCancel ==
    (/\ kpc = "done"
     /\ download_queue # << >>
     /\ \E s \in Starters : spc[s] = "check")
        ~> (\E p \in DOMAIN procs : procs[p].late /\ p \in finished)

(* C16: a file with the final output name exists in the output directory    *)
(* only for a job whose transfer completed cleanly; a transfer in progress  *)
(* keeps its data under another name.                                       *)
C16_FinalNameOnlyAfterCleanExit ==
    \A u \in Urls :
        filename[u] \in files =>
            \E p \in DOMAIN procs : procs[p].url = u /\ procs[p].state = "exited"

(* C17: a job is reported complete only when its transfer subprocess exited *)
(* cleanly and the session was not cancelled; a transfer whose subprocess   *)
(* failed is never reported complete, and once its worker is done with it   *)
(* its partial file is gone.                                                *)
C17_CompleteOnlyOnCleanExit ==
    /\ \A p \in finished : procs[p].state = "exited"
    /\ \A w \in Workers :
          (/\ wpc[w] = "qsize"
           /\ procs[wjob[w].proc].state = "failed"
           /\ ~Held(procs, filename[wjob[w].url]))
              => filename[wjob[w].url] \notin files

(* C36: a download session always ends: when cancel_all is called while     *)
(* jobs are still queued and a call of start is running, that call          *)
(* eventually returns and download_running is false.                        *)
C36_SessionEndsAfterCancel ==
    (/\ kpc = "drain"
     /\ download_queue # << >>
     /\ spc["s1"] \in {"spawn", "join"})
        ~> (spc["s1"] = "done" /\ ~download_running)

(* C37: without cancellation every job enqueued with add_url is eventually  *)
(* taken by a worker, including a job that waits in the queue while a       *)
(* session is running (download_running is true, so that the caller does    *)
(* not call start again).  A session in which an exception ends a worker is *)
(* left aside.                                                              *)
C37_EveryJobIsTaken ==
    (/\ download_queue # << >>
     /\ download_running
     /\ spc["s1"] \in {"spawn", "join"})
        ~> \/ download_queue = << >>
           \/ cancel_flag
           \/ \E w \in Workers : wpc[w] = "dead"

\* Worker w takes the step in which it calls done_callback: completed_files,
\* once incremented, equals its total_files
DoneCallbackCalled(w) ==
    /\ wpc[w] = "count"
    /\ wpc'[w] = "loop"
    /\ completed_files'[w[1]] = wjob[w].total_files

\* Worker w holds a job it has taken and not yet counted
JobInProgress(w) ==
    wpc[w] \in {"popen", "append", "read", "finish", "qsize", "count"}

(* C38: in a session without cancellation done_callback is invoked after    *)
(* the last job of the session has finished, never while a job is still     *)
(* queued or another job is in progress.                                    *)
C38_DoneCallbackAfterLastJob ==
    [][\A w \in Workers :
          (~cancel_flag /\ DoneCallbackCalled(w)) =>
              /\ download_queue = << >>
              /\ \A v \in Workers \ {w} : ~JobInProgress(v)]_vars

\* ------------------------------------------------------------------------
\* Properties of the connections of a crawl
\* ------------------------------------------------------------------------

(* C33: during a crawl no store connection is used by more than one thread: *)
(* each worker thread writes and commits only through its own thread-local  *)
(* connection, the one it opened itself.                                    *)
C33_OneThreadPerConnection ==
    /\ \A c \in DOMAIN conn_users : Cardinality(conn_users[c]) <= 1
    /\ \A k \in DOMAIN pool :
          pool[k].conn # None =>
              /\ opened[pool[k].conn[1]] = pool[k].thread
              /\ thread_local[pool[k].thread] = pool[k].conn[1]

\* Two threads have committed, each through a connection of its own, and one
\* of them has done so in two tasks
C33_Witness ==
    \E j, k, l \in DOMAIN pool :
        /\ j # k
        /\ pool[j].state = "returned" /\ pool[j].conn # None
        /\ pool[k].state = "returned" /\ pool[k].conn # None
        /\ pool[l].state = "returned" /\ pool[l].conn # None
        /\ pool[j].thread = pool[k].thread
        /\ pool[l].thread # pool[j].thread
        /\ pool[l].conn # pool[j].conn
====
